---- MODULE Spec2Model ----
(***************************************************************************)
(* Model of the LINE webhook of ANIT-Room-Reservation (the most developed  *)
(* revision of api/webhook.ts, src/unnamed/part_001): the per-user session *)
(* document in the `states` collection, the `reservations` collection, the *)
(* postback buttons the bot has sent, and one action per webhook handler.  *)
(* `issued`, `accepted`, `lastAcceptAt` and `ev` record what the bot sent   *)
(* and which presses it accepted and when.  `inflight` holds the handler   *)
(* invocations that run concurrently, each Firestore call a step of its    *)
(* own (specification SpecRace).                                           *)
(*                                                                         *)
(* Time is Date.now() in milliseconds.  The calendar arithmetic of the     *)
(* source is kept (JST offset, day of week from the epoch day), with the   *)
(* clock placed in the first weeks after the epoch so that the values fit  *)
(* the model checker's integers; the weekday cycle has period 7.            *)
(* Every handler runs at one instant `now`: all its Date.now() calls       *)
(* return the same value.  The call on the reservations collection in a    *)
(* terminal step may fail (storeOk); the calls on `states` do not.         *)
(*                                                                         *)
(* Absent document fields are 0 (numbers, ids), "" (strings) and << >>     *)
(* (arrays); the source tests these fields by truthiness, for which 0 and  *)
(* "" behave as absent.  Trigger phrases and band names are ASCII          *)
(* stand-ins of the Japanese phrases of TRIGGER_WORDS.                     *)
(***************************************************************************)
EXTENDS Integers, Sequences, FiniteSets, TLC

VARIABLES now, nEvents, states, reservations, nextDocId, issued, accepted,
          lastAcceptAt, ev, inflight, lottery_results

vars == <<now, nEvents, states, reservations, nextDocId, issued, accepted,
          lastAcceptAt, ev, inflight, lottery_results>>

----------------------------------------------------------------------------
(* Bounds *)

\* clock steps the model explores after StartTime
MaxTicks == 2
\* webhook events the model delivers
MaxEvents == 6
\* reservations of the user who pages through the listing
PagedDocs == 10
\* reservations that finalize may add on top of the initial ones
MaxNewDocs == 2
\* events the model delivers while handler invocations overlap
MaxRaceEvents == 4

----------------------------------------------------------------------------
(* Program constants *)

SESSION_TIMEOUT_MINUTES == 5
MinuteMs == 1000 * 60
HourMs == 60 * MinuteMs
DayMs == 24 * HourMs
jstOffset == 9 * 60 * 60 * 1000
ConfirmSkewMs == 10
PageSize == 9
LookaheadDays == 7
CutoffHour == 21
LotteryHour == 20
LotteryMinute == 50
\* new Date(0) is a Thursday
EpochDayIndex == 4

TRIGGER_WORDS ==
  [REGISTER |-> {"register"},
   CANCEL   |-> {"cancel"},
   VIEW_ALL |-> {"view all"},
   VIEW_MY  |-> {"view my"}]

Users == {"u1", "u2"}
\* users whose events the model delivers
ActiveUsers == {"u1"}
\* free texts that are not trigger phrases
BandNames == {"A", "A&B"}
Texts == TRIGGER_WORDS.REGISTER \cup TRIGGER_WORDS.CANCEL
           \cup TRIGGER_WORDS.VIEW_ALL \cup TRIGGER_WORDS.VIEW_MY \cup BandNames

\* the settings/reservation document: weekday allow-list and time slots
SettingsAvailableDays == {3}
SettingsTimeSlots == <<"09:00-10:00", "10:00-12:00">>

\* Tuesday 1970-01-06, 12:00 JST and 20:45 JST: a timeline without blackout
\* and one that runs into it
StartTimes == {5 * DayMs + 3 * HourMs,
               5 * DayMs + 11 * HourMs + 45 * MinuteMs}
\* the clock is observed every two and a half minutes
TickMs == (5 * MinuteMs) \div 2

----------------------------------------------------------------------------
(* Documents *)

NoState ==
  [exists |-> FALSE, status |-> "", createdAt |-> 0,
   editingDocId |-> 0, editSelectedDate |-> 0,
   deletingDocId |-> 0, deletingBandName |-> "",
   pendingQuickReply |-> << >>, quickReplyStartTime |-> 0,
   lastButtonPressTs |-> 0,
   lastViewMyCarouselTs |-> 0, lastViewMyMorePage |-> 0]

\* an empty document that exists: the base of set() without merge
EmptyState == [NoState EXCEPT !.exists = TRUE]

\* lotteryRank, lotteryTotal and lotteryDate are written by the lottery,
\* order by the reconciliation; 0 and -1 stand for an absent field
NoReservation ==
  [exists |-> FALSE, userId |-> "", bandName |-> "", date |-> <<0, "">>,
   status |-> "", lotteryRank |-> 0, lotteryTotal |-> 0, lotteryDate |-> 0,
   order |-> -1]

Reservation(u, band, day, time, st) ==
  [exists |-> TRUE, userId |-> u, bandName |-> band, date |-> <<day, time>>,
   status |-> st, lotteryRank |-> 0, lotteryTotal |-> 0, lotteryDate |-> 0,
   order |-> -1]

\* postback data: action plus the parameters the handlers read
Button(action, docId, band, date, time, ts, start, page) ==
  [action |-> action, docId |-> docId, band |-> band, date |-> date,
   time |-> time, ts |-> ts, start |-> start, page |-> page]

NoButton == Button("", 0, "", 0, "", 0, 0, 0)

Range(s) == {s[i] : i \in 1..Len(s)}

----------------------------------------------------------------------------
(* Pure functions *)

\* the timeout test with the boundary excluded
isSessionExpiredAtStrict(t, startTime) ==
  (t - startTime) > SESSION_TIMEOUT_MINUTES * MinuteMs

isSessionExpiredAt(t, startTime) ==
  (t - startTime) >= SESSION_TIMEOUT_MINUTES * MinuteMs

isSessionExpired(startTime) == isSessionExpiredAt(now, startTime)

\* getUTCDay / getUTCHours / getUTCMinutes of new Date(t + jstOffset)
JstDay(t) == (t + jstOffset) \div DayMs
DayIndexOf(day) == (day + EpochDayIndex) % 7
JstHours(t) == ((t + jstOffset) % DayMs) \div HourMs
JstMinutes(t) == ((t + jstOffset) % HourMs) \div MinuteMs

\* the blackout test with the window opening one minute late
isLotteryTimeAtLate(t, availableDays) ==
  /\ JstHours(t) = LotteryHour
  /\ JstMinutes(t) > LotteryMinute
  /\ DayIndexOf(JstDay(t) + 1) \in availableDays

isLotteryTimeAt(t, availableDays) ==
  /\ JstHours(t) = LotteryHour
  /\ JstMinutes(t) >= LotteryMinute
  /\ DayIndexOf(JstDay(t) + 1) \in availableDays

isLotteryTime == isLotteryTimeAt(now, SettingsAvailableDays)

\* the instant of the lottery cron job: Tuesday 21:00 JST
LotteryStart == 5 * DayMs + 12 * HourMs

\* the dates lottery_results may hold a document for
LotteryDays == JstDay(LotteryStart)..(JstDay(LotteryStart) + LookaheadDays + 1)

\* lottery_results/<date>: per time slot the labels in rank order; an empty
\* order is a slot without entry
NoResults ==
  [exists |-> FALSE, results |-> [slot \in Range(SettingsTimeSlots) |-> << >>]]

\* the start of the scan with the cutoff one hour late
daysToAddAtLate(t, availableDays, includeToday) ==
  IF includeToday
    THEN IF JstHours(t) >= CutoffHour
           THEN IF DayIndexOf(JstDay(t) + 1) \in availableDays THEN 1 ELSE 2
           ELSE IF DayIndexOf(JstDay(t)) \in availableDays THEN 0 ELSE 1
    ELSE IF JstHours(t) > CutoffHour THEN 2 ELSE 1

daysToAddAt(t, availableDays, includeToday) ==
  IF includeToday
    THEN IF JstHours(t) >= CutoffHour
           THEN IF DayIndexOf(JstDay(t) + 1) \in availableDays THEN 1 ELSE 2
           ELSE IF DayIndexOf(JstDay(t)) \in availableDays THEN 0 ELSE 1
    ELSE IF JstHours(t) >= CutoffHour THEN 2 ELSE 1

RECURSIVE ScanDays(_, _, _)
ScanDays(startDay, i, availableDays) ==
  IF i >= LookaheadDays THEN << >>
  ELSE (IF DayIndexOf(startDay + i) \in availableDays
          THEN <<startDay + i>> ELSE << >>)
       \o ScanDays(startDay, i + 1, availableDays)

\* the canonical keys (days) of the eligible dates, in order
getAvailableDateListAt(t, availableDays, includeToday) ==
  ScanDays(JstDay(t) + daysToAddAt(t, availableDays, includeToday), 0,
           availableDays)

getAvailableDateList(includeToday) ==
  getAvailableDateListAt(now, SettingsAvailableDays, includeToday)

\* encodeURIComponent on the labels of the model
encodeURIComponent(name) == IF name = "A&B" THEN "A%26B" ELSE name

\* URLSearchParams.get on the value as written into the postback data: a
\* percent escape is decoded, a raw "&" ends the parameter
paramsGet(wire) ==
  IF wire = "A%26B" THEN "A&B" ELSE IF wire = "A&B" THEN "A" ELSE wire

decodeURIComponent(value) == IF value = "A%26B" THEN "A&B" ELSE value

----------------------------------------------------------------------------
(* Freshness guard *)

\* the guard with the watermark itself still accepted
isCarouselButtonValidStrict(u, buttonTs) ==
  IF isSessionExpired(buttonTs) THEN "expired"
  ELSE IF /\ states[u].exists
          /\ states[u].lastButtonPressTs # 0
          /\ buttonTs < states[u].lastButtonPressTs
         THEN "outdated"
  ELSE "valid"

isCarouselButtonValid(u, buttonTs) ==
  IF isSessionExpired(buttonTs) THEN "expired"
  ELSE IF /\ states[u].exists
          /\ states[u].lastButtonPressTs # 0
          /\ buttonTs <= states[u].lastButtonPressTs
         THEN "outdated"
  ELSE "valid"

\* recordButtonPress that writes nothing
recordButtonPressSkipped(s) == s

\* the session document after recordButtonPress
recordButtonPress(s) == [s EXCEPT !.exists = TRUE, !.lastButtonPressTs = now]

isViewMyMoreValid(s, page, carouselTs) ==
  IF ~s.exists THEN TRUE
  ELSE IF s.lastViewMyCarouselTs # carouselTs THEN TRUE
  ELSE IF page <= s.lastViewMyMorePage THEN FALSE
  ELSE TRUE

recordViewMyMore(s, page, carouselTs) ==
  [s EXCEPT !.exists = TRUE, !.lastViewMyCarouselTs = carouselTs,
            !.lastViewMyMorePage = page]

\* the re-offer without the timeout test of the offered choices
getOngoingOperationReplyNoTimeout(s, kind) ==
  IF ~s.exists THEN <<"", << >>, s>>
  ELSE IF s.pendingQuickReply = << >> THEN <<"", << >>, s>>
  ELSE <<kind, s.pendingQuickReply, s>>

\* getOngoingOperationReply: <<reply kind, items, session afterwards>>;
\* kind "" is the null result
getOngoingOperationReply(s, kind) ==
  IF ~s.exists THEN <<"", << >>, s>>
  ELSE IF s.pendingQuickReply = << >> THEN <<"", << >>, s>>
  ELSE IF s.quickReplyStartTime # 0 /\ isSessionExpired(s.quickReplyStartTime)
    THEN <<"", << >>, [s EXCEPT !.pendingQuickReply = << >>,
                                !.quickReplyStartTime = 0,
                                !.status = "", !.createdAt = 0]>>
  ELSE <<kind, s.pendingQuickReply, s>>

\* the guard answering every rejected press with the bare notice
checkButtonAndGetErrorReplyBare(u, ts, recordPress, dialogType) ==
  LET validation == isCarouselButtonValid(u, ts)
      s == states[u]
  IN IF ts = 0 THEN <<"", << >>, s, "valid">>
     ELSE IF validation = "valid"
       THEN <<"", << >>, IF recordPress THEN recordButtonPress(s) ELSE s,
              "valid">>
     ELSE <<IF validation = "expired" THEN "carousel_expired"
            ELSE IF dialogType = "confirm" THEN "confirm_outdated"
            ELSE "carousel_outdated",
            << >>, s, validation>>

\* checkButtonAndGetErrorReply:
\* <<reply kind, items, session afterwards, verdict of the guard>>;
\* kind "" is the null result (the button is accepted)
checkButtonAndGetErrorReply(u, ts, recordPress, dialogType) ==
  LET validation == isCarouselButtonValid(u, ts)
      s == states[u]
      ongoing == getOngoingOperationReply(s, "invalid_button_reoffer")
  IN IF ts = 0 THEN <<"", << >>, s, "valid">>
     ELSE IF validation = "valid"
       THEN <<"", << >>, IF recordPress THEN recordButtonPress(s) ELSE s,
              "valid">>
     ELSE IF ongoing[1] # "" THEN ongoing \o <<validation>>
     ELSE <<IF validation = "expired" THEN "carousel_expired"
            ELSE IF dialogType = "confirm" THEN "confirm_outdated"
            ELSE "carousel_outdated",
            << >>, ongoing[3], validation>>

----------------------------------------------------------------------------
(* Events *)

\* docs: the reservations a listing reply shows, one carousel column each
Event(type, u, text, data, verdict, reply, items, docs) ==
  [type |-> type, user |-> u, text |-> text, data |-> data, at |-> now,
   verdict |-> verdict, reply |-> reply, items |-> items, docs |-> docs]

NoEvent(type, t) ==
  [type |-> type, user |-> "", text |-> "", data |-> NoButton, at |-> t,
   verdict |-> "", reply |-> "", items |-> << >>, docs |-> << >>]

\* handler invocations that may overlap: the events of one webhook call run
\* under Promise.all, and webhook calls run in parallel
Procs == {"p1", "p2"}

\* an invocation: its position, its event, the verdict of the guard, the
\* instant of its recordButtonPress and the session document it last read
NoDelivery ==
  [pc |-> "idle", user |-> "", data |-> NoButton, verdict |-> "", at |-> 0,
   snap |-> NoState]

\* replies by which a handler declines a button that passed the guard
\* or fails to carry it out
RefusalReplies ==
  {"lottery_time", "no_available_dates", "already_pressed", "error"}

\* one handled event: the reply, the buttons and columns it carries, the
\* new documents
HandleListing(type, u, text, data, verdict, reply, items, docs, s, rs, nd) ==
  /\ nEvents < MaxEvents
  /\ nEvents' = nEvents + 1
  /\ ev' = Event(type, u, text, data, verdict, reply, items, docs)
  /\ issued' = [issued EXCEPT ![u] = @ \cup Range(items)]
  /\ accepted' = IF verdict = "valid" /\ reply \notin RefusalReplies
                   THEN [accepted EXCEPT ![u] = @ \cup {data}]
                   ELSE accepted
  /\ lastAcceptAt' = IF verdict = "valid" /\ reply \notin RefusalReplies
                       THEN [lastAcceptAt EXCEPT ![u] = now]
                       ELSE lastAcceptAt
  /\ states' = [states EXCEPT ![u] = s]
  /\ reservations' = rs
  /\ nextDocId' = nd
  /\ UNCHANGED <<now, lottery_results, inflight>>

\* a handled event whose reply is no listing
Handle(type, u, text, data, verdict, reply, items, s, rs, nd) ==
  HandleListing(type, u, text, data, verdict, reply, items, << >>, s, rs, nd)

Init ==
  /\ now \in StartTimes
  /\ nEvents = 0
  /\ states = [u \in Users |-> NoState]
  /\ reservations =
       [d \in 1..(2 + MaxNewDocs) |->
          IF d = 1 THEN Reservation("u1", "A", JstDay(now) + 1,
                                    SettingsTimeSlots[1], "pending")
          ELSE IF d = 2 THEN Reservation("u2", "A", JstDay(now) + 1,
                                         SettingsTimeSlots[1], "pending")
          ELSE NoReservation]
  /\ nextDocId = 3
  /\ issued = [u \in Users |-> {}]
  /\ accepted = [u \in Users |-> {}]
  /\ lastAcceptAt = [u \in Users |-> 0]
  /\ inflight = [p \in Procs |-> NoDelivery]
  /\ lottery_results = [day \in LotteryDays |-> NoResults]
  /\ ev = NoEvent("init", now)

\* the clock advances between events
Advance ==
  /\ \E t0 \in StartTimes : now >= t0 /\ now + TickMs <= t0 + MaxTicks * TickMs
  /\ now' = now + TickMs
  /\ ev' = NoEvent("tick", now + TickMs)
  /\ UNCHANGED <<nEvents, states, reservations, nextDocId, issued, accepted,
                 lastAcceptAt, inflight, lottery_results>>

----------------------------------------------------------------------------
(* Text messages *)

\* the reserved words without the "view my" phrases
AllTriggersWithoutViewMy == TRIGGER_WORDS.REGISTER \cup TRIGGER_WORDS.VIEW_ALL

AllTriggers == TRIGGER_WORDS.REGISTER \cup TRIGGER_WORDS.VIEW_ALL
                 \cup TRIGGER_WORDS.VIEW_MY

\* the routing with the active step served before the cancel phrase
TextRouteStepFirst(u, text) ==
  IF states[u].exists /\ states[u].status # "" THEN "other"
  ELSE IF text \in TRIGGER_WORDS.CANCEL THEN "cancel"
  ELSE IF text \in TRIGGER_WORDS.REGISTER THEN "register"
  ELSE IF text \in TRIGGER_WORDS.VIEW_ALL THEN "view_all"
  ELSE IF text \in TRIGGER_WORDS.VIEW_MY THEN "view_my"
  ELSE "none"

\* handleTextEvent: the handler a text is routed to
TextRoute(u, text) ==
  IF text \in TRIGGER_WORDS.CANCEL THEN "cancel"
  ELSE IF states[u].exists /\ states[u].status # "" THEN "other"
  ELSE IF text \in TRIGGER_WORDS.REGISTER THEN "register"
  ELSE IF text \in TRIGGER_WORDS.VIEW_ALL THEN "view_all"
  ELSE IF text \in TRIGGER_WORDS.VIEW_MY THEN "view_my"
  ELSE "none"

\* the fields every text-side clearing path deletes
ClearWizardFields(s) ==
  [s EXCEPT !.exists = TRUE, !.status = "", !.createdAt = 0,
            !.editingDocId = 0, !.editSelectedDate = 0,
            !.deletingDocId = 0, !.deletingBandName = "",
            !.pendingQuickReply = << >>, !.quickReplyStartTime = 0]

handleCancelRequest(u, text) ==
  /\ TextRoute(u, text) = "cancel"
  /\ Handle("text", u, text, NoButton, "", "cancelled", << >>,
            ClearWizardFields(states[u]), reservations, nextDocId)

handleRegisterRequest(u, text) ==
  /\ TextRoute(u, text) = "register"
  /\ IF isLotteryTime
       THEN Handle("text", u, text, NoButton, "", "lottery_time", << >>,
                   states[u], reservations, nextDocId)
       ELSE Handle("text", u, text, NoButton, "", "ask_band_name", << >>,
                   [EmptyState EXCEPT !.status = "WAITING_BAND_NAME",
                                      !.createdAt = now,
                                      !.lastButtonPressTs = now],
                   reservations, nextDocId)

\* quick reply items: one postback button per eligible date
DateItems(dates, action, docId, band, start) ==
  [i \in 1..Len(dates) |->
     Button(action, docId, band, dates[i], "", 0, start, 0)]

\* quick reply items: one postback button per time slot
TimeItems(action, docId, band, date, start) ==
  [i \in 1..Len(SettingsTimeSlots) |->
     Button(action, docId, band, date, SettingsTimeSlots[i], 0, start, 0)]

handleViewAllRequest(u, text) ==
  /\ TextRoute(u, text) = "view_all"
  /\ LET availableDates == getAvailableDateList(TRUE)
         items == DateItems(availableDates, "view_reservations", 0, "", now)
     IN IF availableDates = << >>
          THEN Handle("text", u, text, NoButton, "", "no_view_dates", << >>,
                      states[u], reservations, nextDocId)
          ELSE Handle("text", u, text, NoButton, "", "ask_view_date", items,
                      [EmptyState EXCEPT !.status = "VIEWING_ALL_DATE_SELECT",
                                         !.createdAt = now,
                                         !.lastButtonPressTs = now,
                                         !.pendingQuickReply = items,
                                         !.quickReplyStartTime = now],
                      reservations, nextDocId)

\* order of the date strings "yyyy-mm-ddThh:mm-hh:mm" under localeCompare:
\* by day, then by the position of the time range among the configured
\* slots, which are in ascending order
TimeRank(time) ==
  IF \E i \in 1..Len(SettingsTimeSlots) : SettingsTimeSlots[i] = time
    THEN CHOOSE i \in 1..Len(SettingsTimeSlots) : SettingsTimeSlots[i] = time
    ELSE 0

\* the comparison with the order reversed
DateLessDescending(a, b) ==
  b[1] < a[1] \/ (a[1] = b[1] /\ TimeRank(b[2]) < TimeRank(a[2]))

DateLess(a, b) == a[1] < b[1] \/ (a[1] = b[1] /\ TimeRank(a[2]) < TimeRank(b[2]))

\* the query of the listing without the filter on the user
MyDocsOfAnyUser(u) ==
  {d \in DOMAIN reservations : reservations[d].exists}

MyDocs(u) ==
  {d \in DOMAIN reservations :
     reservations[d].exists /\ reservations[d].userId = u}

\* the query snapshot is in document id order and Array.sort is stable
RECURSIVE SortDocs(_)
SortDocs(ds) ==
  IF ds = {} THEN << >>
  ELSE LET first == CHOOSE d \in ds : \A e \in ds \ {d} :
                      \/ DateLess(reservations[d].date, reservations[e].date)
                      \/ /\ ~DateLess(reservations[e].date, reservations[d].date)
                         /\ d < e
       IN <<first>> \o SortDocs(ds \ {first})

\* the three action buttons of one carousel column
\* the columns keep their three live buttons during lottery time
ColumnActionsLive(d, carouselCreatedAt, isLottery) ==
  <<Button("edit_reservation", d, "", 0, "", carouselCreatedAt, 0, 0),
    Button("edit_datetime", d, "", 0, "", carouselCreatedAt, 0, 0),
    Button("confirm_delete", d,
           encodeURIComponent(reservations[d].bandName), 0, "",
           carouselCreatedAt, 0, 0)>>

ColumnActions(d, carouselCreatedAt, isLottery) ==
  IF isLottery
    THEN <<Button("noop", 0, "", 0, "", 0, 0, 0)>>
    ELSE <<Button("edit_reservation", d, "", 0, "", carouselCreatedAt, 0, 0),
           Button("edit_datetime", d, "", 0, "", carouselCreatedAt, 0, 0),
           Button("confirm_delete", d,
                  encodeURIComponent(reservations[d].bandName), 0, "",
                  carouselCreatedAt, 0, 0)>>

RECURSIVE Flatten(_)
Flatten(ss) == IF ss = << >> THEN << >> ELSE Head(ss) \o Flatten(Tail(ss))

Min(a, b) == IF a < b THEN a ELSE b

\* handleViewMyReservations:
\* <<reply kind, buttons of the reply, reservations of its columns>>
ViewMyReply(u, page, carouselCreatedAt) ==
  LET sortedDocs == SortDocs(MyDocs(u))
      totalCount == Len(sortedDocs)
      startIndex == page * PageSize
      endIndex == Min(startIndex + PageSize, totalCount)
      hasMore == endIndex < totalCount
      columns == [i \in 1..(endIndex - startIndex) |->
                    ColumnActions(sortedDocs[startIndex + i],
                                  carouselCreatedAt, isLotteryTime)]
      more == IF hasMore
                THEN <<Button("view_my_more", 0, "", 0, "",
                              carouselCreatedAt, 0, page + 1),
                       Button("noop", 0, "", 0, "", 0, 0, 0)>>
                ELSE << >>
  IN IF totalCount = 0 THEN <<"no_reservations", << >>, << >> >>
     ELSE IF startIndex >= totalCount
       THEN <<"no_more_reservations", << >>, << >> >>
     ELSE <<"listing", Flatten(columns) \o more,
            [i \in 1..(endIndex - startIndex) |-> sortedDocs[startIndex + i]]>>

\* the text trigger answered with the second page
handleViewMyReservationsNextPage(u, text) ==
  /\ TextRoute(u, text) = "view_my"
  /\ LET r == ViewMyReply(u, 1, now)
     IN HandleListing("text", u, text, NoButton, "", r[1], r[2], r[3],
                      states[u], reservations, nextDocId)

handleViewMyReservations(u, text) ==
  /\ TextRoute(u, text) = "view_my"
  /\ LET r == ViewMyReply(u, 0, now)
     IN HandleListing("text", u, text, NoButton, "", r[1], r[2], r[3],
                      states[u], reservations, nextDocId)

\* update() of a reservation succeeds only on an existing document
\* update() writing to a document that is gone instead of failing
DocExistsOrGone(d) == d \in DOMAIN reservations

DocExists(d) == d \in DOMAIN reservations /\ reservations[d].exists

\* the stray text answered with a notice
handleIgnoredTextAnswered(u, text) ==
  /\ TextRoute(u, text) = "none"
  /\ Handle("text", u, text, NoButton, "", "unknown_input", << >>,
            states[u], reservations, nextDocId)

\* a text that is no trigger phrase while no wizard step is active
handleIgnoredText(u, text) ==
  /\ TextRoute(u, text) = "none"
  /\ Handle("text", u, text, NoButton, "", "none", << >>,
            states[u], reservations, nextDocId)

handleOtherInput(u, text) ==
  /\ TextRoute(u, text) = "other"
  /\ LET s == states[u]
         isReservedWord == text \in AllTriggers
         availableDates == getAvailableDateList(FALSE)
         dateItems == DateItems(availableDates, "select_date", 0,
                                encodeURIComponent(text), s.createdAt)
         docId == s.editingDocId
         ongoing == getOngoingOperationReply(s,
                      IF isReservedWord THEN "reserved_word_reoffer"
                      ELSE "continue_reoffer")
     IN IF s.createdAt # 0 /\ isSessionExpired(s.createdAt)
          THEN Handle("text", u, text, NoButton, "", "session_timeout", << >>,
                      ClearWizardFields(s), reservations, nextDocId)
        ELSE IF s.status = "WAITING_BAND_NAME"
          THEN IF isReservedWord
                 THEN Handle("text", u, text, NoButton, "", "reserved_word", << >>,
                             s, reservations, nextDocId)
               ELSE IF availableDates = << >>
                 THEN Handle("text", u, text, NoButton, "", "no_available_dates",
                             << >>, s, reservations, nextDocId)
               ELSE Handle("text", u, text, NoButton, "", "ask_date", dateItems,
                           [s EXCEPT !.status = "", !.createdAt = 0,
                                     !.pendingQuickReply = dateItems,
                                     !.quickReplyStartTime = s.createdAt],
                           reservations, nextDocId)
        ELSE IF s.status = "EDITING_BAND_NAME"
          THEN IF isReservedWord
                 THEN Handle("text", u, text, NoButton, "", "reserved_word", << >>,
                             s, reservations, nextDocId)
               ELSE \E storeOk \in BOOLEAN :
                      Handle("text", u, text, NoButton, "",
                             IF storeOk /\ DocExists(docId)
                               THEN "band_name_updated" ELSE "error",
                             << >>,
                             [s EXCEPT !.status = "", !.editingDocId = 0,
                                       !.createdAt = 0],
                             IF storeOk /\ DocExists(docId)
                               THEN [reservations EXCEPT
                                       ![docId].bandName = text]
                               ELSE reservations,
                             nextDocId)
        ELSE IF s.status = "WAITING_DELETE_CONFIRM"
          THEN Handle("text", u, text, NoButton, "", "delete_confirm_pending",
                      << >>, s, reservations, nextDocId)
        ELSE Handle("text", u, text, NoButton, "",
                    IF ongoing[1] = "" THEN "none" ELSE ongoing[1],
                    ongoing[2], ongoing[3], reservations, nextDocId)

TextEvent ==
  \E u \in ActiveUsers, text \in Texts :
    \/ handleCancelRequest(u, text)
    \/ handleRegisterRequest(u, text)
    \/ handleViewAllRequest(u, text)
    \/ handleViewMyReservations(u, text)
    \/ handleIgnoredText(u, text)
    \/ handleOtherInput(u, text)

----------------------------------------------------------------------------
(* Postback buttons *)

\* the issuing time a button carries: `ts` or `start`
StampOf(b) == IF b.ts # 0 THEN b.ts ELSE b.start

\* a button reaches the user, and its press the server, after the instant
\* stamped in it: the round trip takes longer than the skew of the
\* confirm dialogue
Pressable(b) == StampOf(b) <= now

handleSelectDate(u, b) ==
  /\ b.action = "select_date"
  /\ LET bandName == paramsGet(b.band)
         items == TimeItems("finalize", 0, bandName, b.date, b.start)
     IN IF b.start # 0 /\ isSessionExpired(b.start)
          THEN Handle("postback", u, "", b, "expired", "register_timeout", << >>,
                      states[u], reservations, nextDocId)
          ELSE Handle("postback", u, "", b, "valid", "ask_time", items,
                      [states[u] EXCEPT !.exists = TRUE,
                                        !.pendingQuickReply = items,
                                        !.quickReplyStartTime = b.start],
                      reservations, nextDocId)

handleFinalize(u, b) ==
  /\ b.action = "finalize"
  /\ LET bandName == decodeURIComponent(paramsGet(b.band))
     IN IF b.start # 0 /\ isSessionExpired(b.start)
          THEN Handle("postback", u, "", b, "expired", "register_timeout", << >>,
                      states[u], reservations, nextDocId)
          ELSE \E storeOk \in BOOLEAN :
                 IF storeOk
                   THEN /\ nextDocId \in DOMAIN reservations
                        /\ Handle("postback", u, "", b, "valid",
                                  "reservation_accepted", << >>,
                                  [states[u] EXCEPT !.exists = TRUE,
                                                    !.pendingQuickReply = << >>,
                                                    !.quickReplyStartTime = 0,
                                                    !.lastButtonPressTs = now],
                                  [reservations EXCEPT ![nextDocId] =
                                     Reservation(u, bandName, b.date, b.time,
                                                 "pending")],
                                  nextDocId + 1)
                   ELSE Handle("postback", u, "", b, "valid", "error", << >>,
                               states[u], reservations, nextDocId)

\* the fields handleViewReservations deletes on both of its paths
ClearViewFields(s) ==
  [s EXCEPT !.exists = TRUE, !.status = "", !.createdAt = 0,
            !.pendingQuickReply = << >>, !.quickReplyStartTime = 0]

\* the slots the summary walks through, in this order
timeSlotOrder ==
  <<"09:00-10:00", "10:00-12:00", "12:00-14:00", "14:00-16:00",
    "16:00-18:00", "18:00-20:00">>

\* the reservations of one date and slot
SlotDocs(date, slot) ==
  {d \in DOMAIN reservations :
     reservations[d].exists /\ reservations[d].date = <<date, slot>>}

\* the test that takes a drawn slot for a confirmed one
allConfirmedOrDetermined(ds) ==
  \A d \in ds : reservations[d].status \in {"determined", "confirmed"}

\* reservations.every(r => r.status === 'confirmed')
allConfirmed(ds) == \A d \in ds : reservations[d].status = "confirmed"

\* a.order || 0
OrderKey(d) == IF reservations[d].order = -1 THEN 0 ELSE reservations[d].order

\* the documents in the order of the query snapshot (by id), or sorted by
\* their order field with Array.sort, which keeps the snapshot order of
\* equal keys
RECURSIVE SlotList(_, _)
SlotList(ds, byOrder) ==
  IF ds = {} THEN << >>
  ELSE LET first == CHOOSE d \in ds : \A e \in ds \ {d} :
                      IF byOrder
                        THEN \/ OrderKey(d) < OrderKey(e)
                             \/ OrderKey(d) = OrderKey(e) /\ d < e
                        ELSE d < e
       IN <<first>> \o SlotList(ds \ {first}, byOrder)

\* one block of the summary: numbered when all reservations of the slot are
\* confirmed (by order, or in creation order when the first one has no
\* order field), bulleted otherwise
SlotBlock(date, slot) ==
  LET ds == SlotDocs(date, slot)
      numbered == allConfirmed(ds)
      byOrder == numbered /\ reservations[SlotList(ds, FALSE)[1]].order # -1
      list == SlotList(ds, byOrder)
  IN [slot |-> slot, numbered |-> numbered,
      labels |-> [i \in DOMAIN list |-> reservations[list[i]].bandName]]

\* the blocks of the summary of a date: the slots that have reservations
RECURSIVE SummaryFrom(_, _)
SummaryFrom(date, i) ==
  IF i > Len(timeSlotOrder) THEN << >>
  ELSE (IF SlotDocs(date, timeSlotOrder[i]) # {}
          THEN <<SlotBlock(date, timeSlotOrder[i])>> ELSE << >>)
       \o SummaryFrom(date, i + 1)

handleViewReservations(u, b) ==
  /\ b.action = "view_reservations"
  /\ IF b.start # 0 /\ isSessionExpired(b.start)
       THEN Handle("postback", u, "", b, "expired", "view_timeout", << >>,
                   ClearViewFields(states[u]), reservations, nextDocId)
       ELSE IF \E d \in DOMAIN reservations :
                 reservations[d].exists /\ reservations[d].date[1] = b.date
         THEN HandleListing("postback", u, "", b, "valid", "date_summary",
                            << >>, SummaryFrom(b.date, 1),
                            ClearViewFields(states[u]), reservations, nextDocId)
         ELSE Handle("postback", u, "", b, "valid", "no_reservations_on_date",
                     << >>, ClearViewFields(states[u]), reservations,
                     nextDocId)

handleEditReservation(u, b) ==
  /\ b.action = "edit_reservation"
  /\ LET chk == checkButtonAndGetErrorReply(u, b.ts, FALSE, "carousel")
     IN IF chk[1] # ""
          THEN Handle("postback", u, "", b, chk[4], chk[1], chk[2], chk[3],
                      reservations, nextDocId)
        ELSE IF isLotteryTime
          THEN Handle("postback", u, "", b, chk[4], "lottery_time", << >>, chk[3],
                      reservations, nextDocId)
        ELSE Handle("postback", u, "", b, chk[4], "ask_new_band_name", << >>,
                    [EmptyState EXCEPT !.status = "EDITING_BAND_NAME",
                                       !.editingDocId = b.docId,
                                       !.createdAt = now,
                                       !.lastButtonPressTs = now],
                    reservations, nextDocId)

\* the delete dialogue stamped with the instant of the press itself
handleConfirmDeleteNoSkew(u, b) ==
  /\ b.action = "confirm_delete"
  /\ LET chk == checkButtonAndGetErrorReply(u, b.ts, TRUE, "carousel")
         bandName == decodeURIComponent(paramsGet(b.band))
         confirmTs == now
     IN IF chk[1] # ""
          THEN Handle("postback", u, "", b, chk[4], chk[1], chk[2], chk[3],
                      reservations, nextDocId)
          ELSE Handle("postback", u, "", b, chk[4], "confirm_dialog",
                      <<Button("delete_reservation", b.docId, "", 0, "",
                               confirmTs, 0, 0),
                        Button("cancel_delete", 0, "", 0, "", confirmTs, 0, 0)>>,
                      [chk[3] EXCEPT !.status = "WAITING_DELETE_CONFIRM",
                                     !.deletingDocId = b.docId,
                                     !.deletingBandName = bandName,
                                     !.createdAt = now],
                      reservations, nextDocId)

handleConfirmDelete(u, b) ==
  /\ b.action = "confirm_delete"
  /\ LET chk == checkButtonAndGetErrorReply(u, b.ts, TRUE, "carousel")
         bandName == decodeURIComponent(paramsGet(b.band))
         confirmTs == now + ConfirmSkewMs
     IN IF chk[1] # ""
          THEN Handle("postback", u, "", b, chk[4], chk[1], chk[2], chk[3],
                      reservations, nextDocId)
          ELSE Handle("postback", u, "", b, chk[4], "confirm_dialog",
                      <<Button("delete_reservation", b.docId, "", 0, "",
                               confirmTs, 0, 0),
                        Button("cancel_delete", 0, "", 0, "", confirmTs, 0, 0)>>,
                      [chk[3] EXCEPT !.status = "WAITING_DELETE_CONFIRM",
                                     !.deletingDocId = b.docId,
                                     !.deletingBandName = bandName,
                                     !.createdAt = now],
                      reservations, nextDocId)

\* the answered delete dialogue leaving createdAt in the session
ClearDeleteFieldsKeepingCreatedAt(s) ==
  [s EXCEPT !.exists = TRUE, !.status = "", !.deletingDocId = 0,
            !.deletingBandName = ""]

\* the fields the delete dialogue deletes when it is answered
ClearDeleteFields(s) ==
  [s EXCEPT !.exists = TRUE, !.status = "", !.deletingDocId = 0,
            !.deletingBandName = "", !.createdAt = 0]

handleDeleteReservation(u, b) ==
  /\ b.action = "delete_reservation"
  /\ LET chk == checkButtonAndGetErrorReply(u, b.ts, TRUE, "confirm")
     IN IF chk[1] # ""
          THEN Handle("postback", u, "", b, chk[4], chk[1], chk[2], chk[3],
                      reservations, nextDocId)
          ELSE \E storeOk \in BOOLEAN :
                 Handle("postback", u, "", b, chk[4],
                        IF storeOk THEN "deleted" ELSE "error", << >>,
                        ClearDeleteFields(chk[3]),
                        IF storeOk /\ b.docId \in DOMAIN reservations
                          THEN [reservations EXCEPT ![b.docId] = NoReservation]
                          ELSE reservations,
                        nextDocId)

handleCancelDelete(u, b) ==
  /\ b.action = "cancel_delete"
  /\ LET chk == checkButtonAndGetErrorReply(u, b.ts, TRUE, "confirm")
     IN IF chk[1] # ""
          THEN Handle("postback", u, "", b, chk[4], chk[1], chk[2], chk[3],
                      reservations, nextDocId)
          ELSE Handle("postback", u, "", b, chk[4], "delete_cancelled", << >>,
                      ClearDeleteFields(chk[3]), reservations, nextDocId)

handleViewMyMore(u, b) ==
  /\ b.action = "view_my_more"
  /\ LET chk == checkButtonAndGetErrorReply(u, b.ts, FALSE, "carousel")
         r == ViewMyReply(u, b.page, b.ts)
     IN IF chk[1] # ""
          THEN Handle("postback", u, "", b, chk[4], chk[1], chk[2], chk[3],
                      reservations, nextDocId)
        ELSE IF b.ts # 0 /\ ~isViewMyMoreValid(chk[3], b.page, b.ts)
          THEN Handle("postback", u, "", b, chk[4], "already_pressed", << >>, chk[3],
                      reservations, nextDocId)
        ELSE HandleListing("postback", u, "", b, chk[4], r[1], r[2], r[3],
                           IF b.ts # 0
                             THEN recordViewMyMore(chk[3], b.page, b.ts)
                             ELSE chk[3],
                           reservations, nextDocId)

handleEditDateTime(u, b) ==
  /\ b.action = "edit_datetime"
  /\ LET chk == checkButtonAndGetErrorReply(u, b.ts, FALSE, "carousel")
         availableDates == getAvailableDateList(FALSE)
         items == DateItems(availableDates, "edit_select_date", b.docId, "",
                            now)
     IN IF chk[1] # ""
          THEN Handle("postback", u, "", b, chk[4], chk[1], chk[2], chk[3],
                      reservations, nextDocId)
        ELSE IF isLotteryTime
          THEN Handle("postback", u, "", b, chk[4], "lottery_time", << >>, chk[3],
                      reservations, nextDocId)
        ELSE IF availableDates = << >>
          THEN Handle("postback", u, "", b, chk[4], "no_available_dates", << >>,
                      chk[3], reservations, nextDocId)
        ELSE Handle("postback", u, "", b, chk[4], "ask_new_date", items,
                    [EmptyState EXCEPT !.status = "EDITING_DATETIME",
                                       !.editingDocId = b.docId,
                                       !.createdAt = now,
                                       !.lastButtonPressTs = now,
                                       !.pendingQuickReply = items,
                                       !.quickReplyStartTime = now],
                    reservations, nextDocId)

handleEditSelectDate(u, b) ==
  /\ b.action = "edit_select_date"
  /\ LET items == TimeItems("edit_finalize", b.docId, "", b.date, b.start)
     IN IF b.start # 0 /\ isSessionExpired(b.start)
          THEN Handle("postback", u, "", b, "expired", "edit_timeout", << >>,
                      [states[u] EXCEPT !.exists = TRUE, !.status = "",
                                        !.editingDocId = 0, !.createdAt = 0,
                                        !.pendingQuickReply = << >>,
                                        !.quickReplyStartTime = 0],
                      reservations, nextDocId)
          ELSE Handle("postback", u, "", b, "valid", "ask_new_time", items,
                      [EmptyState EXCEPT !.status = "EDITING_DATETIME_TIME",
                                         !.editingDocId = b.docId,
                                         !.editSelectedDate = b.date,
                                         !.createdAt = now,
                                         !.lastButtonPressTs = now,
                                         !.pendingQuickReply = items,
                                         !.quickReplyStartTime = b.start],
                      reservations, nextDocId)

\* the final step of the edit that enters the reservation anew
handleEditFinalizeAsNew(u, b) ==
  /\ b.action = "edit_finalize"
  /\ IF b.start # 0 /\ isSessionExpired(b.start)
       THEN Handle("postback", u, "", b, "expired", "edit_timeout", << >>,
                   NoState, reservations, nextDocId)
       ELSE \E storeOk \in BOOLEAN :
              Handle("postback", u, "", b, "valid",
                     IF storeOk /\ DocExists(b.docId)
                       THEN "datetime_updated" ELSE "error",
                     << >>,
                     [states[u] EXCEPT !.exists = TRUE, !.status = "",
                                       !.editingDocId = 0,
                                       !.editSelectedDate = 0,
                                       !.createdAt = 0,
                                       !.pendingQuickReply = << >>,
                                       !.quickReplyStartTime = 0],
                     IF storeOk /\ DocExists(b.docId)
                       THEN [reservations EXCEPT
                               ![b.docId] =
                                  Reservation(@.userId, @.bandName, b.date,
                                              b.time, "pending")]
                       ELSE reservations,
                     nextDocId)

handleEditFinalize(u, b) ==
  /\ b.action = "edit_finalize"
  /\ IF b.start # 0 /\ isSessionExpired(b.start)
       THEN Handle("postback", u, "", b, "expired", "edit_timeout", << >>,
                   NoState, reservations, nextDocId)
       ELSE \E storeOk \in BOOLEAN :
              Handle("postback", u, "", b, "valid",
                     IF storeOk /\ DocExists(b.docId)
                       THEN "datetime_updated" ELSE "error",
                     << >>,
                     [states[u] EXCEPT !.exists = TRUE, !.status = "",
                                       !.editingDocId = 0,
                                       !.editSelectedDate = 0,
                                       !.createdAt = 0,
                                       !.pendingQuickReply = << >>,
                                       !.quickReplyStartTime = 0],
                     IF storeOk /\ DocExists(b.docId)
                       THEN [reservations EXCEPT
                               ![b.docId].date = <<b.date, b.time>>]
                       ELSE reservations,
                     nextDocId)

\* handlePostbackEvent has no branch for the placeholder buttons
handleNoop(u, b) ==
  /\ b.action = "noop"
  /\ Handle("postback", u, "", b, "", "none", << >>,
            states[u], reservations, nextDocId)

PostbackEvent ==
  \E u \in ActiveUsers : \E b \in issued[u] :
    /\ Pressable(b)
    /\ \/ handleSelectDate(u, b)
       \/ handleFinalize(u, b)
       \/ handleViewReservations(u, b)
       \/ handleEditReservation(u, b)
       \/ handleConfirmDelete(u, b)
       \/ handleDeleteReservation(u, b)
       \/ handleCancelDelete(u, b)
       \/ handleViewMyMore(u, b)
       \/ handleEditDateTime(u, b)
       \/ handleEditSelectDate(u, b)
       \/ handleEditFinalize(u, b)
       \/ handleNoop(u, b)

Next ==
  \/ Advance
  \/ TextEvent
  \/ PostbackEvent

Spec == Init /\ [][Next]_vars

----------------------------------------------------------------------------
(* A date/time edit under way: a minute ago the user pressed the edit      *)
(* button of reservation 1 and the date button of tomorrow, and holds the  *)
(* time buttons of that step.                                              *)

\* the clock starts on the timeline without blackout, Tuesday 12:00 JST
InitEditing ==
  /\ now = 5 * DayMs + 3 * HourMs
  /\ nEvents = 0
  /\ reservations =
       [d \in 1..(2 + MaxNewDocs) |->
          IF d = 1 THEN Reservation("u1", "A", JstDay(now) + 1,
                                    SettingsTimeSlots[1], "pending")
          ELSE IF d = 2 THEN Reservation("u2", "A", JstDay(now) + 1,
                                         SettingsTimeSlots[1], "pending")
          ELSE NoReservation]
  /\ nextDocId = 3
  /\ LET start == now - MinuteMs
         date == getAvailableDateListAt(start, SettingsAvailableDays,
                                        FALSE)[1]
         items == TimeItems("edit_finalize", 1, "", date, start)
     IN /\ states =
             [u \in Users |->
                IF u \in ActiveUsers
                  THEN [EmptyState EXCEPT
                          !.status = "EDITING_DATETIME_TIME",
                          !.editingDocId = 1,
                          !.editSelectedDate = date,
                          !.createdAt = start,
                          !.lastButtonPressTs = start,
                          !.pendingQuickReply = items,
                          !.quickReplyStartTime = start]
                  ELSE NoState]
        /\ issued = [u \in Users |->
                       IF u \in ActiveUsers THEN Range(items) ELSE {}]
  /\ accepted = [u \in Users |-> {}]
  /\ lastAcceptAt = [u \in Users |-> 0]
  /\ inflight = [p \in Procs |-> NoDelivery]
  /\ lottery_results = [day \in LotteryDays |-> NoResults]
  /\ ev = NoEvent("init", now)

SpecEditing == InitEditing /\ [][Next]_vars

\* A user with more reservations than one page holds, another user's
\* reservation, and the events that page through the listing and delete
\* from it.
InitPage ==
  /\ now \in StartTimes
  /\ nEvents = 0
  /\ states = [u \in Users |-> NoState]
  /\ reservations =
       [d \in 1..(PagedDocs + 1) |->
          IF d <= PagedDocs
            THEN Reservation("u1", "A", JstDay(now) + 1,
                             SettingsTimeSlots[1 + (d % Len(SettingsTimeSlots))],
                             "pending")
            ELSE Reservation("u2", "A", JstDay(now) + 1,
                             SettingsTimeSlots[1], "pending")]
  /\ nextDocId = PagedDocs + 2
  /\ issued = [u \in Users |-> {}]
  /\ accepted = [u \in Users |-> {}]
  /\ lastAcceptAt = [u \in Users |-> 0]
  /\ inflight = [p \in Procs |-> NoDelivery]
  /\ lottery_results = [day \in LotteryDays |-> NoResults]
  /\ ev = NoEvent("init", now)

\* the reservations the paging user deletes
PagedDeleteDocs == {1}

ViewMyText ==
  \E u \in ActiveUsers, text \in TRIGGER_WORDS.VIEW_MY :
    handleViewMyReservations(u, text)

ViewMyMorePress ==
  \E u \in ActiveUsers : \E b \in issued[u] :
    Pressable(b) /\ handleViewMyMore(u, b)

DeletePress ==
  \E u \in ActiveUsers : \E b \in issued[u] :
    /\ Pressable(b)
    /\ b.docId \in PagedDeleteDocs
    /\ handleConfirmDelete(u, b) \/ handleDeleteReservation(u, b)

NoopPress ==
  \E u \in ActiveUsers : \E b \in issued[u] :
    Pressable(b) /\ handleNoop(u, b)

NextPage ==
  \/ Advance
  \/ ViewMyText
  \/ ViewMyMorePress
  \/ DeletePress
  \/ NoopPress

SpecPage == InitPage /\ [][NextPage]_vars

----------------------------------------------------------------------------
(* The cleanup job next to the paged listing.  A minute ago the user got   *)
(* the listing, pressed "show more" and then the delete button of          *)
(* reservation 1: the session holds the watermark, the paging fields and   *)
(* the pending delete dialogue of that minute.                             *)

\* the default of the job's `days` parameter
daysToKeep == 7

\* the test of the timestamps that looks at createdAt only
hasRecentActivityCreatedOnly(data) ==
  data.createdAt # 0 /\ data.createdAt >= now - 5 * MinuteMs

\* some timestamp of the session document is less than 5 minutes old
hasRecentActivity(data) ==
  LET timestamps == {data.createdAt, data.quickReplyStartTime,
                     data.lastButtonPressTs, data.lastViewMyCarouselTs}
                      \ {0}
      fiveMinutesAgo == now - 5 * MinuteMs
  IN \E ts \in timestamps : ts >= fiveMinutesAgo

\* the cleanup job: reservations and lottery results of days before the
\* cutoff day and the sessions without recent activity are deleted
DataOrganize ==
  LET cutoffDay == JstDay(now) - daysToKeep
      deleted == {u \in Users :
                    states[u].exists /\ ~hasRecentActivity(states[u])}
  IN /\ reservations' =
          [d \in DOMAIN reservations |->
             IF reservations[d].exists /\ reservations[d].date[1] < cutoffDay
               THEN NoReservation ELSE reservations[d]]
     /\ lottery_results' =
          [day \in DOMAIN lottery_results |->
             IF day < cutoffDay THEN NoResults ELSE lottery_results[day]]
     /\ states' = [u \in Users |->
                     IF u \in deleted THEN NoState ELSE states[u]]
     /\ ev' = [type |-> "cleanup", user |-> "", text |-> "",
               data |-> NoButton, at |-> now, verdict |-> "", reply |-> "",
               items |-> << >>, docs |-> << >>, deletedStates |-> deleted]
     /\ UNCHANGED <<now, nEvents, nextDocId, issued, accepted, lastAcceptAt,
                    inflight>>

InitCleanup ==
  /\ now \in StartTimes
  /\ nEvents = 0
  /\ reservations =
       [d \in 1..(PagedDocs + 1) |->
          IF d <= PagedDocs
            THEN Reservation("u1", "A", JstDay(now) + 1,
                             SettingsTimeSlots[1 + (d % Len(SettingsTimeSlots))],
                             "pending")
            ELSE Reservation("u2", "A", JstDay(now) + 1,
                             SettingsTimeSlots[1], "pending")]
  /\ nextDocId = PagedDocs + 2
  /\ LET start == now - MinuteMs
         confirmTs == start + ConfirmSkewMs
     IN /\ states =
             [u \in Users |->
                IF u \in ActiveUsers
                  THEN [EmptyState EXCEPT
                          !.status = "WAITING_DELETE_CONFIRM",
                          !.deletingDocId = 1,
                          !.deletingBandName = "A",
                          !.createdAt = start,
                          !.lastButtonPressTs = start,
                          !.lastViewMyCarouselTs = start,
                          !.lastViewMyMorePage = 1]
                  ELSE NoState]
        /\ issued =
             [u \in Users |->
                IF u \in ActiveUsers
                  THEN UNION {Range(ColumnActions(d, start, FALSE)) :
                                d \in 1..PagedDocs}
                       \cup {Button("view_my_more", 0, "", 0, "", start, 0, 1),
                             Button("noop", 0, "", 0, "", 0, 0, 0)}
                       \cup {Button("delete_reservation", 1, "", 0, "",
                                    confirmTs, 0, 0),
                             Button("cancel_delete", 0, "", 0, "",
                                    confirmTs, 0, 0)}
                  ELSE {}]
  /\ accepted = [u \in Users |-> {}]
  /\ lastAcceptAt = [u \in Users |-> 0]
  /\ inflight = [p \in Procs |-> NoDelivery]
  /\ lottery_results = [day \in LotteryDays |-> NoResults]
  /\ ev = NoEvent("init", now)

NextCleanup ==
  \/ NextPage
  \/ DataOrganize

SpecCleanup == InitCleanup /\ [][NextCleanup]_vars

----------------------------------------------------------------------------
(* Concurrent deliveries: every read and write of a document is one step *)

\* the buttons whose handlers call the guard with recordPress
GuardRecordingActions ==
  {"confirm_delete", "delete_reservation", "cancel_delete"}

\* the buttons whose handlers are run step by step
RaceActions ==
  {"confirm_delete", "delete_reservation", "cancel_delete", "edit_datetime"}

\* delete() of a reservation that does not write
DeleteDocLost(rs, d) == rs

\* delete() of a reservation: no effect on a missing document
DeleteDoc(rs, d) ==
  IF d \in DOMAIN rs THEN [rs EXCEPT ![d] = NoReservation] ELSE rs

\* an invocation returns: its reply is sent
RaceFinish(p, reply, items) ==
  LET d == inflight[p]
      u == d.user
      done == d.verdict = "valid" /\ reply \notin RefusalReplies
  IN /\ ev' = Event("postback", u, "", d.data, d.verdict, reply, items, << >>)
     /\ issued' = [issued EXCEPT ![u] = @ \cup Range(items)]
     /\ accepted' = IF done THEN [accepted EXCEPT ![u] = @ \cup {d.data}]
                     ELSE accepted
     /\ lastAcceptAt' = IF done THEN [lastAcceptAt EXCEPT ![u] = now]
                         ELSE lastAcceptAt
     /\ inflight' = [inflight EXCEPT ![p] = NoDelivery]

\* a postback event reaches an idle invocation, the first one if both are
RaceDeliver(p) ==
  /\ inflight[p].pc = "idle"
  /\ p = "p2" => inflight["p1"].pc # "idle"
  /\ nEvents < MaxRaceEvents
  /\ \E u \in ActiveUsers : \E b \in issued[u] :
       /\ Pressable(b)
       /\ b.action \in RaceActions
       /\ inflight' = [inflight EXCEPT ![p] =
                         [NoDelivery EXCEPT !.pc = "guard", !.user = u,
                                            !.data = b]]
  /\ nEvents' = nEvents + 1
  /\ UNCHANGED <<now, lottery_results, states, reservations, nextDocId, issued, accepted,
                 lastAcceptAt, ev>>

\* isCarouselButtonValid: the read of the session document
RaceGuard(p) ==
  /\ inflight[p].pc = "guard"
  /\ LET d == inflight[p]
         validation == isCarouselButtonValid(d.user, d.data.ts)
     IN inflight' = [inflight EXCEPT
                       ![p].verdict = validation,
                       ![p].pc = IF validation # "valid" THEN "ongoing"
                                 ELSE IF d.data.action \in GuardRecordingActions
                                   THEN "record"
                                 ELSE "write"]
  /\ UNCHANGED <<now, lottery_results, nEvents, states, reservations, nextDocId, issued,
                 accepted, lastAcceptAt, ev>>

\* recordButtonPress: the merge write of the watermark
RaceRecord(p) ==
  /\ inflight[p].pc = "record"
  /\ states' = [states EXCEPT ![inflight[p].user] = recordButtonPress(@)]
  /\ inflight' = [inflight EXCEPT ![p].pc = "write", ![p].at = now]
  /\ UNCHANGED <<now, lottery_results, nEvents, reservations, nextDocId, issued, accepted,
                 lastAcceptAt, ev>>

\* the session write of the handler, on the document as it is now
RaceWrite(p) ==
  /\ inflight[p].pc = "write"
  /\ LET d == inflight[p]
         u == d.user
         b == d.data
         confirmTs == d.at + ConfirmSkewMs
         availableDates == getAvailableDateList(FALSE)
         items == DateItems(availableDates, "edit_select_date", b.docId, "",
                            now)
     IN IF b.action = "confirm_delete"
          THEN /\ states' = [states EXCEPT ![u] =
                   [@ EXCEPT !.exists = TRUE,
                             !.status = "WAITING_DELETE_CONFIRM",
                             !.deletingDocId = b.docId,
                             !.deletingBandName =
                                decodeURIComponent(paramsGet(b.band)),
                             !.createdAt = d.at]]
               /\ RaceFinish(p, "confirm_dialog",
                     <<Button("delete_reservation", b.docId, "", 0, "",
                              confirmTs, 0, 0),
                       Button("cancel_delete", 0, "", 0, "", confirmTs, 0, 0)>>)
        ELSE IF b.action = "delete_reservation"
          THEN /\ states' = [states EXCEPT ![u] = ClearDeleteFields(@)]
               /\ inflight' = [inflight EXCEPT ![p].pc = "store"]
               /\ UNCHANGED <<issued, accepted, lastAcceptAt, ev>>
        ELSE IF b.action = "cancel_delete"
          THEN /\ states' = [states EXCEPT ![u] = ClearDeleteFields(@)]
               /\ RaceFinish(p, "delete_cancelled", << >>)
        ELSE IF isLotteryTime
          THEN /\ UNCHANGED states
               /\ RaceFinish(p, "lottery_time", << >>)
        ELSE IF availableDates = << >>
          THEN /\ UNCHANGED states
               /\ RaceFinish(p, "no_available_dates", << >>)
        ELSE /\ states' = [states EXCEPT ![u] =
                 [EmptyState EXCEPT !.status = "EDITING_DATETIME",
                                    !.editingDocId = b.docId,
                                    !.createdAt = now,
                                    !.lastButtonPressTs = now,
                                    !.pendingQuickReply = items,
                                    !.quickReplyStartTime = now]]
             /\ RaceFinish(p, "ask_new_date", items)
  /\ UNCHANGED <<now, lottery_results, nEvents, reservations, nextDocId>>

\* handleDeleteReservation: the delete of the reservation
RaceStore(p) ==
  /\ inflight[p].pc = "store"
  /\ reservations' = DeleteDoc(reservations, inflight[p].data.docId)
  /\ RaceFinish(p, "deleted", << >>)
  /\ UNCHANGED <<now, lottery_results, nEvents, states, nextDocId>>

\* getOngoingOperationReply of a rejected press: the read of the session
RaceOngoingRead(p) ==
  /\ inflight[p].pc = "ongoing"
  /\ inflight' = [inflight EXCEPT ![p].pc = "reject",
                                  ![p].snap = states[inflight[p].user]]
  /\ UNCHANGED <<now, lottery_results, nEvents, states, reservations, nextDocId, issued,
                 accepted, lastAcceptAt, ev>>

\* the rest of a rejected press: run-out choices are removed by a merge
\* write, live ones are offered again, otherwise the notice is sent
RaceReject(p) ==
  /\ inflight[p].pc = "reject"
  /\ LET d == inflight[p]
         ongoing == getOngoingOperationReply(d.snap, "invalid_button_reoffer")
     IN /\ states' = IF ongoing[3] # d.snap
                       THEN [states EXCEPT ![d.user] =
                               [@ EXCEPT !.exists = TRUE,
                                         !.pendingQuickReply = << >>,
                                         !.quickReplyStartTime = 0,
                                         !.status = "", !.createdAt = 0]]
                       ELSE states
        /\ RaceFinish(p,
              IF ongoing[1] # "" THEN ongoing[1]
              ELSE IF d.verdict = "expired" THEN "carousel_expired"
              ELSE IF d.data.action \in {"delete_reservation", "cancel_delete"}
                THEN "confirm_outdated"
              ELSE "carousel_outdated",
              ongoing[2])
  /\ UNCHANGED <<now, lottery_results, nEvents, reservations, nextDocId>>

\* a listing requested by text, handled at once
RaceViewMyText == nEvents < MaxRaceEvents /\ ViewMyText

NextRace ==
  \/ Advance
  \/ RaceViewMyText
  \/ \E p \in Procs : RaceDeliver(p)
  \/ \E p \in Procs : RaceGuard(p)
  \/ \E p \in Procs : RaceRecord(p)
  \/ \E p \in Procs : RaceWrite(p)
  \/ \E p \in Procs : RaceStore(p)
  \/ \E p \in Procs : RaceOngoingRead(p)
  \/ \E p \in Procs : RaceReject(p)

SpecRace == Init /\ [][NextRace]_vars

\* The date functions applied to instants and allow-lists of their whole
\* domain: every hour of MaxDateDays consecutive days, with the minutes
\* around the blackout window, and every set of weekdays.
MaxDateDays == 7

DateMinutes == {0, LotteryMinute - 1, LotteryMinute, 59}

DateTimes ==
  {day * DayMs + h * HourMs + m * MinuteMs - jstOffset :
     day \in 1..MaxDateDays, h \in 0..23, m \in DateMinutes}

AllowLists == SUBSET (0..6)

InitDates ==
  /\ now \in DateTimes
  /\ nEvents = 0
  /\ states = [u \in Users |-> NoState]
  /\ reservations = [d \in 1..MaxNewDocs |-> NoReservation]
  /\ nextDocId = 1
  /\ issued = [u \in Users |-> {}]
  /\ accepted = [u \in Users |-> {}]
  /\ lastAcceptAt = [u \in Users |-> 0]
  /\ inflight = [p \in Procs |-> NoDelivery]
  /\ lottery_results = [day \in LotteryDays |-> NoResults]
  /\ ev = NoEvent("init", now)

\* getAvailableDateList called once, at the instant drawn, with the
\* allow-list the settings hold
ComputeDates ==
  \E availableDays \in AllowLists, includeToday \in BOOLEAN :
    /\ nEvents = 0
    /\ nEvents' = 1
    /\ ev' = [type |-> "dates", at |-> now, availableDays |-> availableDays,
              includeToday |-> includeToday,
              result |-> getAvailableDateListAt(now, availableDays,
                                                includeToday)]
    /\ UNCHANGED <<now, lottery_results, states, reservations, nextDocId, issued,
                   accepted, lastAcceptAt, inflight>>

\* isLotteryTime called once, at the instant drawn, with the allow-list
\* the settings hold
ComputeLottery ==
  \E availableDays \in AllowLists :
    /\ nEvents = 0
    /\ nEvents' = 1
    /\ ev' = [type |-> "lottery_time", at |-> now,
              availableDays |-> availableDays,
              result |-> isLotteryTimeAt(now, availableDays)]
    /\ UNCHANGED <<now, lottery_results, states, reservations, nextDocId, issued,
                   accepted, lastAcceptAt, inflight>>

NextDates == ComputeDates \/ ComputeLottery

SpecDates == InitDates /\ [][NextDates]_vars

----------------------------------------------------------------------------
(* Properties *)

----------------------------------------------------------------------------
(* The lottery, the reflection of its results and the clearing of a day's  *)
(* results, next to the webhook.  Each job runs as one step.  The clock    *)
(* stands at the instant of the lottery cron job, 21:00 JST on the eve of  *)
(* the target date, from which on the webhook offers that date no more.    *)

MaxLotteryEvents == 4
MaxLotteryTicks == 1

SlotNames == Range(SettingsTimeSlots)

\* a booking ranked by an earlier lottery and moved to another date since
RankedEarlier(u, band, day, time, lotteryDate) ==
  [Reservation(u, band, day, time, "determined") EXCEPT
     !.lotteryRank = 1, !.lotteryTotal = 1, !.lotteryDate = lotteryDate]

InitLottery ==
  /\ now = LotteryStart
  /\ nEvents = 0
  /\ states = [u \in Users |-> NoState]
  /\ \E third \in {Reservation("u2", "C", JstDay(now) + 1,
                               SettingsTimeSlots[1], "pending"),
                   RankedEarlier("u2", "C", JstDay(now) + 1,
                                 SettingsTimeSlots[1], JstDay(now))} :
       reservations =
         [d \in 1..(5 + MaxNewDocs) |->
            IF d = 1 THEN Reservation("u1", "A", JstDay(now) + 1,
                                      SettingsTimeSlots[1], "pending")
            ELSE IF d = 2 THEN Reservation("u2", "A&B", JstDay(now) + 1,
                                           SettingsTimeSlots[1], "pending")
            ELSE IF d = 3 THEN third
            ELSE IF d = 4 THEN Reservation("u1", "A", JstDay(now) + 1
                                             + LookaheadDays,
                                           SettingsTimeSlots[1], "pending")
            ELSE IF d = 5 THEN Reservation("u2", "A", JstDay(now) + 1,
                                           SettingsTimeSlots[2], "pending")
            ELSE NoReservation]
  /\ nextDocId = 6
  /\ issued = [u \in Users |-> {}]
  /\ accepted = [u \in Users |-> {}]
  /\ lastAcceptAt = [u \in Users |-> 0]
  /\ inflight = [p \in Procs |-> NoDelivery]
  /\ lottery_results = [day \in LotteryDays |-> NoResults]
  /\ ev = NoEvent("init", now)

\* the record of a job run
JobEvent(type, targetDate) ==
  [type |-> type, user |-> "", text |-> "", data |-> NoButton, at |-> now,
   verdict |-> "", reply |-> "", items |-> << >>, docs |-> << >>,
   targetDate |-> targetDate]

\* a shuffle that may draw an element twice
shuffleArrayWithRepeats(S) == [1..Cardinality(S) -> S]

\* shuffleArray: the orders the shuffle of the elements of S can return
shuffleArray(S) ==
  {f \in [1..Cardinality(S) -> S] :
     \A i, j \in 1..Cardinality(S) : f[i] = f[j] => i = j}

\* the query of the lottery: the pending reservations of a date and slot
PendingDocs(targetDate, slot) ==
  {d \in DOMAIN reservations :
     /\ reservations[d].exists
     /\ reservations[d].status = "pending"
     /\ reservations[d].date = <<targetDate, slot>>}

\* the last position of a document in a shuffled list: the batch update
\* written last is the one that stays
LastIndex(f, d) ==
  CHOOSE i \in DOMAIN f : f[i] = d /\ \A j \in DOMAIN f : f[j] = d => j <= i

\* api/lottery: ranks the pending reservations of tomorrow, slot by slot,
\* and stores the labels in rank order
Lottery ==
  LET targetDate == JstDay(now) + 1
      docs == [slot \in SlotNames |-> PendingDocs(targetDate, slot)]
      all == UNION {docs[slot] : slot \in SlotNames}
  IN /\ all # {}
     /\ targetDate \in LotteryDays
     /\ \E shuffledDocs \in
             {f \in [SlotNames -> UNION {shuffleArray(docs[slot]) :
                                           slot \in SlotNames}] :
                \A slot \in SlotNames : f[slot] \in shuffleArray(docs[slot])} :
          /\ reservations' =
               [d \in DOMAIN reservations |->
                  LET slot == reservations[d].date[2]
                  IN IF d \in all /\ d \in Range(shuffledDocs[slot])
                       THEN [reservations[d] EXCEPT
                               !.status = "determined",
                               !.lotteryRank = LastIndex(shuffledDocs[slot], d),
                               !.lotteryTotal = Cardinality(docs[slot]),
                               !.lotteryDate = targetDate]
                       ELSE reservations[d]]
          /\ lottery_results' =
               [lottery_results EXCEPT ![targetDate] =
                  [exists |-> TRUE,
                   results |->
                     [slot \in SlotNames |->
                        IF docs[slot] # {}
                          THEN [i \in DOMAIN shuffledDocs[slot] |->
                                  reservations[shuffledDocs[slot][i]].bandName]
                          ELSE @.results[slot]]]]
     /\ ev' = JobEvent("lottery", targetDate)
     /\ UNCHANGED <<now, nEvents, states, nextDocId, issued, accepted,
                    lastAcceptAt, inflight>>

\* api/lottery when no pending reservation of the target date is found:
\* the job returns without writing
LotteryEmpty ==
  LET targetDate == JstDay(now) + 1
  IN /\ \A slot \in SlotNames : PendingDocs(targetDate, slot) = {}
     /\ targetDate \in LotteryDays
     /\ ev' = JobEvent("lottery_none", targetDate)
     /\ UNCHANGED <<now, nEvents, states, reservations, nextDocId, issued,
                    accepted, lastAcceptAt, inflight, lottery_results>>

\* Array.indexOf, counted from 0
indexOf(bands, bandName) ==
  (CHOOSE i \in DOMAIN bands :
     bands[i] = bandName /\ \A j \in DOMAIN bands : bands[j] = bandName => i <= j)
  - 1

\* updateReservationStatus: the reservations after the results of a date
\* have been reflected
updateReservationStatus(rs, targetDate, results) ==
  [d \in DOMAIN rs |->
     IF /\ rs[d].exists
        /\ rs[d].date[1] = targetDate
        /\ rs[d].date[2] \in SlotNames
        /\ rs[d].bandName \in Range(results[rs[d].date[2]])
        /\ rs[d].status # "confirmed"
       THEN [rs[d] EXCEPT
               !.status = "confirmed",
               !.order = indexOf(results[rs[d].date[2]], rs[d].bandName)]
       ELSE rs[d]]

\* the reflection of the results of one date
Reconcile ==
  \E targetDate \in LotteryDays :
    /\ lottery_results[targetDate].exists
    /\ reservations' = updateReservationStatus(reservations, targetDate,
                          lottery_results[targetDate].results)
    /\ ev' = JobEvent("reconcile", targetDate)
    /\ UNCHANGED <<now, nEvents, states, nextDocId, issued, accepted,
                   lastAcceptAt, inflight, lottery_results>>

\* the clearing that also returns the reservations to pending
clearLotteryResettingStatus(rs, date) ==
  [d \in DOMAIN rs |->
     IF rs[d].exists /\ rs[d].lotteryDate = date
       THEN [rs[d] EXCEPT !.lotteryRank = 0, !.lotteryTotal = 0,
                          !.lotteryDate = 0, !.status = "pending"]
       ELSE rs[d]]

\* api/clear-lottery: the lottery fields of the reservations drawn for a
\* date are deleted
clearLottery(rs, date) ==
  [d \in DOMAIN rs |->
     IF rs[d].exists /\ rs[d].lotteryDate = date
       THEN [rs[d] EXCEPT !.lotteryRank = 0, !.lotteryTotal = 0,
                          !.lotteryDate = 0]
       ELSE rs[d]]

ClearLottery ==
  \E date \in LotteryDays :
    /\ \/ lottery_results[date].exists
       \/ \E d \in DOMAIN reservations :
            reservations[d].exists /\ reservations[d].lotteryDate = date
    /\ reservations' = clearLottery(reservations, date)
    /\ lottery_results' = [lottery_results EXCEPT ![date] = NoResults]
    /\ ev' = JobEvent("clear_lottery", date)
    /\ UNCHANGED <<now, nEvents, states, nextDocId, issued, accepted,
                   lastAcceptAt, inflight>>

\* the clock advances after the cron instant
AdvanceLottery ==
  /\ now + TickMs <= LotteryStart + MaxLotteryTicks * TickMs
  /\ now' = now + TickMs
  /\ ev' = NoEvent("tick", now + TickMs)
  /\ UNCHANGED <<nEvents, states, reservations, nextDocId, issued, accepted,
                 lastAcceptAt, inflight, lottery_results>>

\* the texts of a user next to the jobs
LotteryUserText ==
  /\ nEvents < MaxLotteryEvents
  /\ \E u \in ActiveUsers, text \in Texts :
       \/ handleRegisterRequest(u, text)
       \/ handleViewMyReservations(u, text)
       \/ handleOtherInput(u, text)

\* the button presses of a user next to the jobs
LotteryUserPress ==
  /\ nEvents < MaxLotteryEvents
  /\ \E u \in ActiveUsers : \E b \in issued[u] :
       /\ Pressable(b)
       /\ \/ handleSelectDate(u, b)
          \/ handleFinalize(u, b)
          \/ handleEditReservation(u, b)
          \/ handleConfirmDelete(u, b)
          \/ handleDeleteReservation(u, b)
          \/ handleEditDateTime(u, b)
          \/ handleEditSelectDate(u, b)
          \/ handleEditFinalize(u, b)

NextLottery ==
  \/ AdvanceLottery
  \/ Lottery
  \/ Reconcile
  \/ ClearLottery
  \/ LotteryUserText
  \/ LotteryUserPress

SpecLottery == InitLottery /\ [][NextLottery]_vars

----------------------------------------------------------------------------
(* The jobs of the lottery evening next to the view-all summary: the       *)
(* lottery, also when it finds nothing to draw, the reflection of its      *)
(* results, the clearing, and a user looking up the slots of a date.       *)

DrawUserText ==
  /\ nEvents < MaxLotteryEvents
  /\ \E u \in ActiveUsers, text \in TRIGGER_WORDS.VIEW_ALL :
       handleViewAllRequest(u, text)

DrawUserPress ==
  /\ nEvents < MaxLotteryEvents
  /\ \E u \in ActiveUsers : \E b \in issued[u] :
       Pressable(b) /\ handleViewReservations(u, b)

NextDraw ==
  \/ Lottery
  \/ LotteryEmpty
  \/ Reconcile
  \/ ClearLottery
  \/ DrawUserText
  \/ DrawUserPress

SpecDraw == InitLottery /\ [][NextDraw]_vars

TimeoutMs == SESSION_TIMEOUT_MINUTES * MinuteMs

MutatingActions == {"finalize", "edit_finalize", "delete_reservation"}
ListingActions == {"edit_reservation", "edit_datetime", "confirm_delete"}
EditStartActions == {"edit_reservation", "edit_datetime"}
OutdatedReplies ==
  {"carousel_outdated", "confirm_outdated", "invalid_button_reoffer"}

\* C1: once a press of a mutating button (finalize, edit finalize, delete
\* confirm) has been accepted and handled, a later delivery of the same
\* button does not change the reservations collection.
C1_RedeliveryNoSecondMutation ==
  [][(/\ ev'.type = "postback"
      /\ ev'.data.action \in MutatingActions
      /\ ev'.data \in accepted[ev'.user])
     => reservations' = reservations]_vars

\* C2 as stated: every button that carries an issuing timestamp (ts or
\* start), less than 5 minutes old and not later than lastButtonPressTs, is
\* rejected as superseded and its action is not performed.
C2_AnyStampSuperseded ==
  [][(/\ ev'.type = "postback"
      /\ StampOf(ev'.data) # 0
      /\ states[ev'.user].lastButtonPressTs # 0
      /\ StampOf(ev'.data) <= states[ev'.user].lastButtonPressTs
      /\ now' - StampOf(ev'.data) < TimeoutMs)
     => (ev'.verdict = "outdated" /\ reservations' = reservations)]_vars

\* C2 amended: every button that carries `ts` (the listing buttons, "show
\* more" and the confirm/cancel pair), less than 5 minutes old and not later
\* than lastButtonPressTs, is rejected as superseded: the reply is a
\* staleness notice, no reservation changes, and the session keeps its
\* watermark and payload and does not enter a wizard step.
C2_TsButtonSuperseded ==
  [][(/\ ev'.type = "postback"
      /\ ev'.data.ts # 0
      /\ states[ev'.user].lastButtonPressTs # 0
      /\ ev'.data.ts <= states[ev'.user].lastButtonPressTs
      /\ now' - ev'.data.ts < TimeoutMs)
     => (/\ ev'.verdict = "outdated"
         /\ ev'.reply \in OutdatedReplies
         /\ reservations' = reservations
         /\ accepted' = accepted
         /\ states'[ev'.user].lastButtonPressTs
              = states[ev'.user].lastButtonPressTs
         /\ states'[ev'.user].editingDocId = states[ev'.user].editingDocId
         /\ states'[ev'.user].deletingDocId = states[ev'.user].deletingDocId
         /\ states'[ev'.user].status \in {states[ev'.user].status, ""})]_vars

C2_Witness ==
  /\ ev.type = "postback"
  /\ ev.data.ts # 0
  /\ ev.verdict = "outdated"
  /\ ev.data.ts <= states[ev.user].lastButtonPressTs
  /\ now - ev.data.ts < TimeoutMs

\* C3: a button whose stamp is at least 5 minutes old is rejected as
\* expired whatever the watermark, and the press changes no reservation.
C3_ExpiredRejected ==
  [][(/\ ev'.type = "postback"
      /\ StampOf(ev'.data) # 0
      /\ now' - StampOf(ev'.data) >= TimeoutMs)
     => (/\ ev'.verdict = "expired"
         /\ reservations' = reservations
         /\ nextDocId' = nextDocId)]_vars

\* an expired guard-checked button that the watermark would supersede too
C3_Witness ==
  /\ ev.type = "postback"
  /\ ev.data.ts # 0
  /\ now - ev.data.ts >= TimeoutMs
  /\ ev.verdict = "expired"
  /\ ev.data.ts <= states[ev.user].lastButtonPressTs

EditGroupPresent(s) == s.editingDocId # 0 \/ s.editSelectedDate # 0
DeleteGroupPresent(s) == s.deletingDocId # 0 \/ s.deletingBandName # ""

\* C4: the edit group and the delete group of a session are never both
\* populated.
C4_OnePayloadGroup ==
  \A u \in Users : ~(EditGroupPresent(states[u]) /\ DeleteGroupPresent(states[u]))

\* C5: a session without status holds no step payload.
C5_StatusAndPayloadClearedTogether ==
  \A u \in Users :
    states[u].status = ""
      => ~EditGroupPresent(states[u]) /\ ~DeleteGroupPresent(states[u])

\* C6: while the blackout is active no event creates a reservation or
\* changes the band name or the date of one.
C6_BlackoutNoBookingWrite ==
  [][(/\ ev'.type \in {"text", "postback"}
      /\ JstHours(now') = LotteryHour
      /\ JstMinutes(now') >= LotteryMinute
      /\ DayIndexOf(JstDay(now') + 1) \in SettingsAvailableDays)
     => (/\ nextDocId' = nextDocId
         /\ \A d \in DOMAIN reservations :
              (reservations[d].exists /\ reservations'[d].exists)
                => /\ reservations'[d].bandName = reservations[d].bandName
                   /\ reservations'[d].date = reservations[d].date)]_vars

\* C7: a press of an edit or delete button of a listing is rejected as
\* superseded when a later listing, also less than 5 minutes old, has been
\* shown, and when the same button has been accepted before.
C7_OlderListingSuperseded ==
  [][(/\ ev'.type = "postback"
      /\ ev'.data.action \in ListingActions
      /\ now' - ev'.data.ts < TimeoutMs
      /\ \/ \E c \in issued[ev'.user] :
              /\ c.action \in ListingActions
              /\ c.ts > ev'.data.ts
              /\ now' - c.ts < TimeoutMs
         \/ ev'.data \in accepted[ev'.user])
     => ev'.verdict = "outdated"]_vars

\* C8: the stored watermark never decreases and is never removed.
C8_WatermarkMonotonic ==
  [][\A u \in Users :
       states[u].lastButtonPressTs # 0
         => states'[u].lastButtonPressTs >= states[u].lastButtonPressTs]_vars

\* C9 as stated: after every press of a committing button that the guard
\* accepts, the watermark is at least the acceptance time.
C9_AcceptedPressAdvancesWatermark ==
  [][(/\ ev'.type = "postback"
      /\ ev'.data.action \in GuardRecordingActions \cup EditStartActions
      /\ ev'.verdict = "valid")
     => states'[ev'.user].lastButtonPressTs >= now']_vars

\* C9 amended: an accepted delete, delete-confirm or delete-cancel button
\* sets the watermark to the acceptance time; an accepted edit band name or
\* edit date/time button sets it together with the session write that
\* starts the edit, and leaves the session untouched when the handler
\* refuses the operation (blackout, no eligible dates).
C9_WatermarkOnAcceptance ==
  [][(/\ ev'.type = "postback"
      /\ ev'.verdict = "valid")
     => /\ ev'.data.action \in GuardRecordingActions
             => states'[ev'.user].lastButtonPressTs = now'
        /\ ev'.data.action \in EditStartActions
             => IF ev'.reply \in {"lottery_time", "no_available_dates"}
                  THEN states'[ev'.user] = states[ev'.user]
                  ELSE states'[ev'.user].lastButtonPressTs = now']_vars

\* an edit button the guard accepts and the blackout refuses
C9_Witness ==
  /\ ev.type = "postback"
  /\ ev.data.action \in EditStartActions
  /\ ev.verdict = "valid"
  /\ ev.reply = "lottery_time"
  /\ states[ev.user].lastButtonPressTs < now

\* C10: once a "show more" press for page p of a listing generation has
\* been accepted, no later press for a page q <= p of that generation is
\* accepted.
C10_ShowMoreForwardOnly ==
  [][(/\ ev'.type = "postback"
      /\ ev'.data.action = "view_my_more"
      /\ \E c \in accepted[ev'.user] :
           /\ c.action = "view_my_more"
           /\ c.ts = ev'.data.ts
           /\ ev'.data.page <= c.page)
     => ev'.data \notin accepted'[ev'.user] \ accepted[ev'.user]
        /\ ev'.reply \notin {"listing", "no_more_reservations"}]_vars

\* replies by which handleViewMyMore shows the page it was asked for
PageReplies == {"listing", "no_more_reservations"}

\* C11: a "show more" press is accepted only if it is of the recorded
\* listing generation with a strictly later page, or of a newer generation;
\* a press of a generation older than the recorded one is rejected.
C11_ShowMoreSameOrNewerGeneration ==
  [][(/\ ev'.type = "postback"
      /\ ev'.data.action = "view_my_more"
      /\ states[ev'.user].lastViewMyCarouselTs # 0
      /\ ev'.reply \in PageReplies)
     => \/ /\ ev'.data.ts = states[ev'.user].lastViewMyCarouselTs
           /\ ev'.data.page > states[ev'.user].lastViewMyMorePage
        \/ ev'.data.ts > states[ev'.user].lastViewMyCarouselTs]_vars

\* the slot key of a reservation, and its order
SlotKeyLeq(d, e) ==
  \/ reservations[d].date[1] < reservations[e].date[1]
  \/ /\ reservations[d].date[1] = reservations[e].date[1]
     /\ TimeRank(reservations[d].date[2]) <= TimeRank(reservations[e].date[2])

SlotKeyLess(d, e) == ~SlotKeyLeq(e, d)

\* the page a listing reply shows
PageOf(e) == IF e.type = "postback" THEN e.data.page ELSE 0

OwnDocs(u) ==
  {d \in DOMAIN reservations :
     reservations[d].exists /\ reservations[d].userId = u}

ShowMoreControls(e) ==
  {i \in 1..Len(e.items) : e.items[i].action = "view_my_more"}

\* C12: a listing page holds at most 9 entries and at most one "show more"
\* control; the control is present exactly when reservations remain beyond
\* the page; the entries of page p are the positions 9p .. 9p+8 of the
\* requesting user's reservations in ascending order of the slot key, and
\* no other user's reservation is listed.
C12_ListingPage ==
  ev.reply = "listing" =>
    LET p == PageOf(ev)
        own == OwnDocs(ev.user)
        n == Cardinality(own)
        shown == Range(ev.docs)
        rest == own \ shown
        first == ev.docs[1]
        last == ev.docs[Len(ev.docs)]
    IN /\ Len(ev.docs) <= PageSize
       /\ Len(ev.docs) = IF n - PageSize * p < PageSize
                           THEN n - PageSize * p ELSE PageSize
       /\ Len(ev.docs) >= 1
       /\ Cardinality(ShowMoreControls(ev)) <= 1
       /\ (ShowMoreControls(ev) # {}) <=> (PageSize * p + PageSize < n)
       /\ \A i \in ShowMoreControls(ev) : ev.items[i].page = p + 1
       /\ shown \subseteq own
       /\ Cardinality(shown) = Len(ev.docs)
       /\ \A i \in 1..(Len(ev.docs) - 1) : SlotKeyLeq(ev.docs[i], ev.docs[i + 1])
       /\ \A d \in rest : SlotKeyLeq(d, first) \/ SlotKeyLeq(last, d)
       /\ Cardinality({d \in rest : SlotKeyLess(d, first)}) <= PageSize * p
       /\ Cardinality({d \in rest : SlotKeyLeq(d, first)}) >= PageSize * p
       /\ \A i \in 1..Len(ev.items) :
            ev.items[i].docId # 0 => ev.items[i].docId \in shown

\* the second page of a listing, after reservations beyond the first
C12_Witness ==
  /\ ev.reply = "listing"
  /\ ev.type = "postback"
  /\ ev.data.page = 1
  /\ Len(ev.docs) >= 1
  /\ \E d \in DOMAIN reservations :
       reservations[d].exists /\ reservations[d].userId # ev.user

\* the label the user typed for the registration a time button belongs to:
\* the date buttons of that registration carry it percent-encoded
EnteredLabel(u, b) ==
  CHOOSE t \in BandNames :
    \E sd \in issued[u] :
      /\ sd.action = "select_date"
      /\ sd.start = b.start
      /\ sd.date = b.date
      /\ sd.band = encodeURIComponent(t)
      /\ paramsGet(sd.band) = b.band

\* the session the steps register, band name and date button leave behind
\* when nothing else is handled in between
SessionBeforeTimeChoice(b) ==
  [EmptyState EXCEPT
     !.pendingQuickReply = TimeItems("finalize", 0, b.band, b.date, b.start),
     !.quickReplyStartTime = b.start,
     !.lastButtonPressTs = b.start]

\* C13: register, band name, date button and time button, handled in this
\* order less than 5 minutes after the registration started, end with
\* exactly one new pending reservation of the user with the entered label
\* and the chosen date and time, a session without status, createdAt and
\* offered choices, and the watermark at the creation time, provided the
\* store call succeeds; the earlier steps create no reservation.
C13_RegistrationEndToEnd ==
  [][/\ (/\ ev'.type = "postback"
         /\ ev'.data.action = "finalize"
         /\ ev.type = "postback"
         /\ ev.data.action = "select_date"
         /\ ev.verdict = "valid"
         /\ ev.user = ev'.user
         /\ states[ev'.user] = SessionBeforeTimeChoice(ev'.data)
         /\ now' - ev'.data.start < TimeoutMs
         /\ ev'.reply # "error")
        => LET u == ev'.user
               b == ev'.data
           IN /\ nextDocId' = nextDocId + 1
              /\ reservations' =
                   [reservations EXCEPT ![nextDocId] =
                      Reservation(u, EnteredLabel(u, b), b.date, b.time,
                                  "pending")]
              /\ states'[u].status = ""
              /\ states'[u].createdAt = 0
              /\ states'[u].pendingQuickReply = << >>
              /\ states'[u].quickReplyStartTime = 0
              /\ states'[u].lastButtonPressTs = now'
     /\ (\/ ev'.reply \in {"ask_band_name", "ask_date", "ask_time"}
         \/ ev'.type = "tick")
        => reservations' = reservations]_vars

TimeoutReplies ==
  {"session_timeout", "register_timeout", "edit_timeout", "view_timeout"}

\* a session with every wizard field absent
WizardFieldsAbsent(s) ==
  /\ s.status = ""
  /\ s.createdAt = 0
  /\ s.editingDocId = 0
  /\ s.editSelectedDate = 0
  /\ s.deletingDocId = 0
  /\ s.deletingBandName = ""
  /\ s.pendingQuickReply = << >>
  /\ s.quickReplyStartTime = 0

\* the replay-guard fields of two sessions agree
GuardFieldsKept(s, t) ==
  /\ t.lastButtonPressTs = s.lastButtonPressTs
  /\ t.lastViewMyCarouselTs = s.lastViewMyCarouselTs
  /\ t.lastViewMyMorePage = s.lastViewMyMorePage

SessionTimedOut(s, t) ==
  s.exists /\ s.createdAt # 0 /\ t - s.createdAt >= TimeoutMs

\* C14 as stated: every event handled against a session whose createdAt is
\* at least 5 minutes old is answered with the timeout notice, clears the
\* wizard fields and changes no reservation.
C14_AnyEventTimeout ==
  [][(/\ ev'.type \in {"text", "postback"}
      /\ SessionTimedOut(states[ev'.user], now'))
     => (/\ ev'.reply \in TimeoutReplies
         /\ WizardFieldsAbsent(states'[ev'.user])
         /\ reservations' = reservations
         /\ nextDocId' = nextDocId)]_vars

\* C14 amended: a text message other than the cancel phrase, handled
\* against a session with a status whose createdAt is at least 5 minutes
\* old, is answered with the timeout notice and nothing else; all wizard
\* fields are cleared, the replay-guard fields are kept and no reservation
\* changes.
C14_TextInputTimeout ==
  [][(/\ ev'.type = "text"
      /\ ev'.text \notin TRIGGER_WORDS.CANCEL
      /\ states[ev'.user].status # ""
      /\ SessionTimedOut(states[ev'.user], now'))
     => (/\ ev'.reply = "session_timeout"
         /\ ev'.items = << >>
         /\ states'[ev'.user].exists
         /\ WizardFieldsAbsent(states'[ev'.user])
         /\ GuardFieldsKept(states[ev'.user], states'[ev'.user])
         /\ reservations' = reservations
         /\ nextDocId' = nextDocId)]_vars

\* a band name typed exactly 5 minutes after the step began
C14_Witness ==
  /\ ev.type = "text"
  /\ ev.text \in BandNames
  /\ ev.reply = "session_timeout"
  /\ states[ev.user].lastButtonPressTs = now - TimeoutMs

\* buttons handled through checkButtonAndGetErrorReply
GuardedActions ==
  {"edit_reservation", "edit_datetime", "confirm_delete",
   "delete_reservation", "cancel_delete", "view_my_more"}

StalenessReplies ==
  {"carousel_expired", "carousel_outdated", "confirm_outdated",
   "invalid_button_reoffer"}

GuardRejects(e) ==
  /\ e.type = "postback"
  /\ e.data.action \in GuardedActions
  /\ e.verdict \in {"expired", "outdated"}

\* the offered choices of a session are at least 5 minutes old
OfferExpired(s, t) ==
  /\ s.pendingQuickReply # << >>
  /\ s.quickReplyStartTime # 0
  /\ t - s.quickReplyStartTime >= TimeoutMs

C16_CancelClearsWizardOnly ==
  [][(ev'.type = "text" /\ ev'.text \in TRIGGER_WORDS.CANCEL)
     => (/\ ev'.reply = "cancelled"
         /\ ev'.items = << >>
         /\ WizardFieldsAbsent(states'[ev'.user])
         /\ GuardFieldsKept(states[ev'.user], states'[ev'.user])
         /\ \A u \in Users \ {ev'.user} : states'[u] = states[u]
         /\ reservations' = reservations
         /\ nextDocId' = nextDocId)]_vars

\* the cancel phrase during the blackout, 5 minutes or more after the
\* watermark it keeps was set
C16_Witness ==
  /\ ev.type = "text"
  /\ ev.text \in TRIGGER_WORDS.CANCEL
  /\ isLotteryTimeAt(now, SettingsAvailableDays)
  /\ states[ev.user].lastButtonPressTs # 0
  /\ now - states[ev.user].lastButtonPressTs >= TimeoutMs

DialogActions == {"delete_reservation", "cancel_delete"}

\* C17 as stated: the confirm/cancel pair is stamped later than the
\* watermark stored when it is issued, and its first press, less than 5
\* minutes after the stamp and with no button accepted since the dialogue
\* was issued, passes the guard.
C17_FirstDialogPressPasses ==
  [][/\ ev'.reply = "confirm_dialog"
          => \A i \in 1..Len(ev'.items) :
               ev'.items[i].ts > states'[ev'.user].lastButtonPressTs
     /\ (/\ ev'.type = "postback"
         /\ ev'.data.action \in DialogActions
         /\ now' - ev'.data.ts < TimeoutMs
         /\ lastAcceptAt[ev'.user] < ev'.data.ts)
        => ev'.verdict = "valid"]_vars

\* C17 amended: the confirm/cancel pair is stamped later than the watermark
\* stored when it is issued, and a press of either button, less than 5
\* minutes after the stamp and with the stored watermark still earlier than
\* the stamp, passes the guard and reaches the store call of its action.
C17_DialogStampAfterWatermark ==
  [][/\ ev'.reply = "confirm_dialog"
          => /\ Len(ev'.items) = 2
             /\ states'[ev'.user].lastButtonPressTs = now'
             /\ \A i \in 1..Len(ev'.items) :
                  /\ ev'.items[i].action \in DialogActions
                  /\ ev'.items[i].ts > states'[ev'.user].lastButtonPressTs
     /\ (/\ ev'.type = "postback"
         /\ ev'.data.action \in DialogActions
         /\ now' - ev'.data.ts < TimeoutMs
         /\ states[ev'.user].lastButtonPressTs < ev'.data.ts)
        => (/\ ev'.verdict = "valid"
            /\ ev'.reply \in {"deleted", "delete_cancelled", "error"})]_vars

\* the delete confirmation pressed a tick after the dialogue was issued
C17_Witness ==
  /\ ev.type = "postback"
  /\ ev.data.action = "delete_reservation"
  /\ ev.verdict = "valid"
  /\ ev.reply = "deleted"
  /\ now > ev.data.ts
  /\ ~reservations[ev.data.docId].exists

\* the steps that end with a write to the reservations collection
TerminalStep(e) ==
  \/ e.type = "postback" /\ e.data.action \in MutatingActions
  \/ e.type = "text" /\ e.text \in BandNames

\* C18: when the call on the reservations collection fails in a terminal
\* step, the user gets the generic retry message and nothing is committed:
\* the session and the reservations are as they were before the event.
C18_FailedStoreCallCommitsNothing ==
  [][(TerminalStep(ev') /\ ev'.reply = "error")
     => (/\ states' = states
         /\ reservations' = reservations
         /\ nextDocId' = nextDocId)]_vars

\* an invocation is past the guard, which accepted its button
PassedGuard(d) == d.verdict = "valid" /\ d.pc \in {"record", "write", "store"}

\* C19: two deliveries of one delete-confirm button handled concurrently
\* leave the reservations as a single delivery does: the only change a step
\* makes to the collection is the removal of the reservation its accepted
\* button names, and when such a delivery has been answered that
\* reservation is absent.
C19_ConcurrentDeleteSameOutcome ==
  [][/\ reservations' # reservations
          => \E p \in Procs :
               /\ inflight[p].pc = "store"
               /\ inflight[p].data.action = "delete_reservation"
               /\ inflight[p].verdict = "valid"
               /\ inflight'[p].pc = "idle"
               /\ reservations[inflight[p].data.docId].exists
               /\ reservations' =
                    [reservations EXCEPT
                       ![inflight[p].data.docId] = NoReservation]
     /\ (/\ ev' # ev
         /\ ev'.type = "postback"
         /\ ev'.data.action = "delete_reservation"
         /\ ev'.verdict = "valid")
          => /\ ev'.reply = "deleted"
             /\ ~reservations'[ev'.data.docId].exists
     /\ nextDocId' = nextDocId]_vars

\* both deliveries of the same delete-confirm button are past the guard
C19_Witness ==
  /\ inflight["p1"].data = inflight["p2"].data
  /\ inflight["p1"].data.action = "delete_reservation"
  /\ PassedGuard(inflight["p1"])
  /\ PassedGuard(inflight["p2"])

\* C20: under concurrent deliveries for one user the session never holds
\* the edit group and the delete group together, and never a group without
\* a status.
C20_ConcurrentSessionConsistent ==
  \A u \in Users :
    /\ ~(EditGroupPresent(states[u]) /\ DeleteGroupPresent(states[u]))
    /\ (EditGroupPresent(states[u]) \/ DeleteGroupPresent(states[u]))
         => states[u].status # ""

\* C21 as stated: the "view my" phrase is answered with page 0 of the
\* user's listing in every session state.
C21_ViewMyInAnyState ==
  [][(ev'.type = "text" /\ ev'.text \in TRIGGER_WORDS.VIEW_MY)
     => ev'.reply \in {"listing", "no_reservations"}]_vars

\* C21 amended: the "view my" phrase sent while no wizard status is active
\* is answered with page 0 of the user's listing: its first entries, at
\* most 9, stamped with the time of the request, or the notice that the
\* user has no reservation; session and reservations are unchanged.
C21_ViewMyWithoutStatus ==
  [][(/\ ev'.type = "text"
      /\ ev'.text \in TRIGGER_WORDS.VIEW_MY
      /\ states[ev'.user].status = "")
     => LET n == Cardinality(OwnDocs(ev'.user))
        IN /\ ev'.reply = IF n = 0 THEN "no_reservations" ELSE "listing"
           /\ Len(ev'.docs) = IF n < PageSize THEN n ELSE PageSize
           /\ Range(ev'.docs) \subseteq OwnDocs(ev'.user)
           /\ \A i \in 1..Len(ev'.items) :
                ev'.items[i].action # "noop"
                  => /\ ev'.items[i].ts = now'
                     /\ ev'.items[i].action = "view_my_more"
                          => ev'.items[i].page = 1
           /\ states' = states
           /\ reservations' = reservations]_vars

\* the phrase sent while date choices of an edit that was cancelled by
\* timeout are still stored
C21_Witness ==
  /\ ev.type = "text"
  /\ ev.text \in TRIGGER_WORDS.VIEW_MY
  /\ ev.reply = "listing"
  /\ states[ev.user].exists
  /\ states[ev.user].status = ""
  /\ states[ev.user].lastButtonPressTs # 0

SilentBranch(e, s, t) ==
  \/ /\ e.type = "text"
     /\ e.text \notin TRIGGER_WORDS.CANCEL \cup AllTriggers
     /\ s.status = ""
  \/ /\ e.type = "text"
     /\ e.text \notin TRIGGER_WORDS.CANCEL
     /\ s.status \notin {"", "WAITING_BAND_NAME", "EDITING_BAND_NAME",
                         "WAITING_DELETE_CONFIRM"}
     /\ ~SessionTimedOut(s, t)
     /\ s.pendingQuickReply = << >> \/ OfferExpired(s, t)
  \/ e.type = "postback" /\ e.data.action = "noop"

NameSteps == {"WAITING_BAND_NAME", "EDITING_BAND_NAME"}

\* the session, the reservations and the id counter are as before the event
StepNotConsumed ==
  /\ states' = states
  /\ reservations' = reservations
  /\ nextDocId' = nextDocId

\* C23 as stated: in a band-name step that has not timed out, a text equal
\* to any trigger phrase, the cancel phrase included, is rejected as a
\* reserved word and the step is not consumed.
C23_AnyTriggerPhraseRejected ==
  [][(/\ ev'.type = "text"
      /\ ev'.text \in TRIGGER_WORDS.CANCEL \cup TRIGGER_WORDS.REGISTER
                        \cup TRIGGER_WORDS.VIEW_ALL \cup TRIGGER_WORDS.VIEW_MY
      /\ states[ev'.user].status \in NameSteps
      /\ ~SessionTimedOut(states[ev'.user], now'))
     => (ev'.reply = "reserved_word" /\ StepNotConsumed)]_vars

\* C23 amended: in a band-name step that has not timed out, a text equal to
\* a register, view-all or view-my phrase is rejected as a reserved word,
\* and the session record and the reservations are unchanged.
C23_ReservedWordRejected ==
  [][(/\ ev'.type = "text"
      /\ ev'.text \in TRIGGER_WORDS.REGISTER \cup TRIGGER_WORDS.VIEW_ALL
                        \cup TRIGGER_WORDS.VIEW_MY
      /\ states[ev'.user].status \in NameSteps
      /\ ~SessionTimedOut(states[ev'.user], now'))
     => (ev'.reply = "reserved_word" /\ StepNotConsumed)]_vars

\* a reserved word was sent as the new name of a reservation
C23_Witness ==
  /\ ev.type = "text"
  /\ ev.text \in TRIGGER_WORDS.VIEW_MY
  /\ ev.reply = "reserved_word"
  /\ states[ev.user].status = "EDITING_BAND_NAME"
  /\ states[ev.user].editingDocId # 0

\* the replies that offer a set of choices and store it in the session
ChoiceReplies == {"ask_date", "ask_time", "ask_new_date", "ask_new_time"}

BareNotices == {"carousel_expired", "carousel_outdated", "confirm_outdated"}

\* the session holds offered choices issued less than 5 minutes before t
OfferLive(s, t) ==
  /\ s.exists
  /\ s.pendingQuickReply # << >>
  /\ ~(s.quickReplyStartTime # 0 /\ t - s.quickReplyStartTime >= TimeoutMs)

WeekdayAt(t) == (((t + jstOffset) \div DayMs) + EpochDayIndex) % 7

\* the minute of the JST day of instant t
MinuteOfDayAt(t) == ((t + jstOffset) % DayMs) \div MinuteMs

\* the first day of the scan for registration and date/time editing
ScanStart(t) ==
  ((t + jstOffset) \div DayMs)
    + (IF MinuteOfDayAt(t) < CutoffHour * 60 THEN 1 ELSE 2)

\* C25: for registration and date/time editing the eligible dates are, in
\* ascending order and without repetition, exactly the days among the 7
\* consecutive days from tomorrow (before 21:00) or from the day after
\* tomorrow (from 21:00 on) whose weekday is in the allow-list; on a Monday
\* at 20:00 with allow-list {Wed, Thu, Sat} the first date is the Wednesday
\* two days later.
C25_EligibleDates ==
  (ev.type = "dates" /\ ~ev.includeToday)
    => LET start == ScanStart(ev.at)
           r == ev.result
       IN /\ Range(r) = {d \in start..(start + 6) :
                           (d + EpochDayIndex) % 7 \in ev.availableDays}
          /\ \A i \in 1..(Len(r) - 1) : r[i] < r[i + 1]
          /\ (/\ WeekdayAt(ev.at) = 1
              /\ MinuteOfDayAt(ev.at) = 20 * 60
              /\ ev.availableDays = {3, 4, 6})
               => /\ r # << >>
                  /\ r[1] = ((ev.at + jstOffset) \div DayMs) + 2
                  /\ (r[1] + EpochDayIndex) % 7 = 3

\* the dates computed on a Monday at 20:00 and at 21:00 for {Wed, Thu, Sat}
C25_Witness ==
  /\ ev.type = "dates"
  /\ ~ev.includeToday
  /\ WeekdayAt(ev.at) = 1
  /\ ev.availableDays = {3, 4, 6}
  /\ \/ MinuteOfDayAt(ev.at) = 20 * 60 /\ Len(ev.result) = 3
     \/ MinuteOfDayAt(ev.at) = 21 * 60 /\ Len(ev.result) = 3

\* C26: the blackout test answers yes exactly from 20:50 up to, not
\* including, 21:00 JST on a day whose next calendar day has a weekday in
\* the allow-list.
C26_BlackoutWindow ==
  ev.type = "lottery_time"
    => (ev.result
          <=> /\ MinuteOfDayAt(ev.at) >= 20 * 60 + 50
              /\ MinuteOfDayAt(ev.at) < 21 * 60
              /\ (WeekdayAt(ev.at) + 1) % 7 \in ev.availableDays)

\* the first minute of the window on the eve of the only eligible weekday
C26_Witness ==
  /\ ev.type = "lottery_time"
  /\ ev.result
  /\ MinuteOfDayAt(ev.at) = 20 * 60 + 50
  /\ Cardinality(ev.availableDays) = 1

RankedIn(r, t) ==
  /\ r.exists
  /\ r.lotteryDate = t
  /\ r.date[1] = t
  /\ r.date[2] \in SlotNames
  /\ r.lotteryRank \in DOMAIN lottery_results[t].results[r.date[2]]

\* the label under which reservation r was ranked
RankedLabel(r, t) == lottery_results[t].results[r.date[2]][r.lotteryRank]

\* C28: in a reflection of the results of a date, a reservation deleted
\* since the lottery is not created again, a reservation renamed since the
\* lottery is left as it is, and every reservation ranked for the date that
\* still carries its ranked label is confirmed.
C28_ReconcileSkipsChanged ==
  [][ev'.type = "reconcile"
     => \A d \in DOMAIN reservations :
          LET r == reservations[d]
              t == ev'.targetDate
          IN /\ ~r.exists => reservations'[d] = r
             /\ RankedIn(r, t)
                  => IF RankedLabel(r, t) # r.bandName
                       THEN reservations'[d] = r
                       ELSE reservations'[d].status = "confirmed"]_vars

\* the pending reservations of a date and slot before a step
PendingOfSlot(t, slot) ==
  {d \in DOMAIN reservations :
     /\ reservations[d].exists
     /\ reservations[d].status = "pending"
     /\ reservations[d].date[1] = t
     /\ reservations[d].date[2] = slot}

\* C29: a lottery run for a date gives the n pending reservations of each
\* of its slots the ranks 1..n, each once, with lotteryTotal n and status
\* determined, stores for the slot the labels in rank order, and leaves
\* the reservations of other dates and the ones not pending as they are.
C29_LotteryRanksPending ==
  [][ev'.type = "lottery"
     => LET t == ev'.targetDate
        IN /\ \A slot \in SlotNames :
                LET P == PendingOfSlot(t, slot)
                    n == Cardinality(P)
                    order == lottery_results'[t].results[slot]
                IN /\ {reservations'[d].lotteryRank : d \in P} = 1..n
                   /\ \A d \in P :
                        /\ reservations'[d] =
                             [reservations[d] EXCEPT
                                !.status = "determined",
                                !.lotteryRank = reservations'[d].lotteryRank,
                                !.lotteryTotal = n,
                                !.lotteryDate = t]
                        /\ n > 0 => order[reservations'[d].lotteryRank]
                                      = reservations[d].bandName
                   /\ n > 0 => Len(order) = n
           /\ \A d \in DOMAIN reservations :
                (\A slot \in SlotNames : d \notin PendingOfSlot(t, slot))
                  => reservations'[d] = reservations[d]]_vars

\* three reservations of one slot were ranked, the first one last, next to
\* one of the same date ranked earlier and one of another date
C29_Witness ==
  /\ ev.type = "lottery"
  /\ reservations[1].lotteryRank = 3
  /\ reservations[1].lotteryTotal = 3
  /\ reservations[5].lotteryTotal = 1
  /\ reservations[4].status = "pending"
  /\ Len(lottery_results[ev.targetDate].results[SettingsTimeSlots[1]]) = 3

\* instant t lies in the blackout window of the settings
InBlackout(t) ==
  /\ MinuteOfDayAt(t) >= 20 * 60 + 50
  /\ MinuteOfDayAt(t) < 21 * 60
  /\ (WeekdayAt(t) + 1) % 7 \in SettingsAvailableDays

\* C30: an accepted edit-date/time button outside the blackout leaves the
\* session in EDITING_DATETIME with the id of the reservation; an accepted
\* date button leaves it in EDITING_DATETIME_TIME with the chosen date; a
\* time button that is carried out sets the date of the reservation to the
\* chosen date and time range, changes no other field of it and no other
\* reservation, and clears the status, the id, the chosen date and the
\* offered choices of the session.
C30_EditDateTimeFlow ==
  [][(ev'.type = "postback" /\ ev'.verdict = "valid")
     => LET b == ev'.data
            s2 == states'[ev'.user]
        IN /\ (b.action = "edit_datetime" /\ ~InBlackout(now'))
                => /\ ev'.reply = "ask_new_date"
                   /\ s2.status = "EDITING_DATETIME"
                   /\ s2.editingDocId = b.docId
           /\ b.action = "edit_select_date"
                => /\ ev'.reply = "ask_new_time"
                   /\ s2.status = "EDITING_DATETIME_TIME"
                   /\ s2.editingDocId = b.docId
                   /\ s2.editSelectedDate = b.date
                   /\ reservations' = reservations
           /\ (b.action = "edit_finalize" /\ ev'.reply # "error")
                => /\ ev'.reply = "datetime_updated"
                   /\ reservations' =
                        [reservations EXCEPT
                           ![b.docId].date = <<b.date, b.time>>]
                   /\ nextDocId' = nextDocId
                   /\ s2.status = ""
                   /\ s2.editingDocId = 0
                   /\ s2.editSelectedDate = 0
                   /\ s2.pendingQuickReply = << >>]_vars

\* a reservation ranked by the lottery was moved to another date and slot
C30_Witness ==
  /\ ev.type = "postback"
  /\ ev.data.action = "edit_finalize"
  /\ ev.reply = "datetime_updated"
  /\ reservations[ev.data.docId].status = "determined"
  /\ reservations[ev.data.docId].lotteryRank # 0
  /\ reservations[ev.data.docId].date = <<ev.data.date, SettingsTimeSlots[2]>>
  /\ ev.data.date # reservations[ev.data.docId].lotteryDate

\* the blocks of a summary show the slots of the date that have
\* reservations, each with the labels of its reservations
SummaryComplete(e) ==
  /\ \A i \in DOMAIN e.docs :
       LET ds == SlotDocs(e.data.date, e.docs[i].slot)
       IN /\ ds # {}
          /\ Len(e.docs[i].labels) = Cardinality(ds)
          /\ Range(e.docs[i].labels) = {reservations[d].bandName : d \in ds}
  /\ \A slot \in SlotNames :
       SlotDocs(e.data.date, slot) # {}
         => \E i \in DOMAIN e.docs : e.docs[i].slot = slot

C32_BlackoutListingInert ==
  [][/\ (ev'.reply = "listing" /\ InBlackout(now')) =>
         /\ Len(ev'.docs) >= 1
         /\ Range(ev'.docs) \subseteq OwnDocs(ev'.user)
         /\ \A i \in 1..Len(ev'.items) :
              ev'.items[i].action \in {"noop", "view_my_more"}
         /\ (ShowMoreControls(ev') # {}) <=>
              (PageSize * PageOf(ev') + PageSize
                 < Cardinality(OwnDocs(ev'.user)))
     /\ (/\ ev'.type = "postback"
         /\ ev'.data.action = "view_my_more"
         /\ InBlackout(StampOf(ev'.data))
         /\ ev'.verdict = "valid"
         /\ ev'.reply # "already_pressed") =>
           ev'.reply \in {"listing", "no_more_reservations",
                          "no_reservations"}
     /\ (ev'.type = "postback" /\ ev'.data.action = "noop") =>
         /\ states' = states
         /\ reservations' = reservations
         /\ nextDocId' = nextDocId
         /\ ev'.reply = "none"]_vars

\* the second page was shown in the blackout window from a "show more"
\* control issued in the window, and a placeholder has been pressed since
C32_Witness ==
  /\ ev.type = "postback"
  /\ ev.data.action = "noop"
  /\ InBlackout(ev.at)
  /\ \E b \in accepted[ev.user] :
       /\ b.action = "view_my_more"
       /\ InBlackout(StampOf(b))
  /\ \E b \in issued[ev.user] : b.action = "view_my_more"

\* the buttons of the wizard steps: registration date and time, edit date
\* and time, and the confirmation of a deletion
WizardButtons ==
  {"select_date", "finalize", "edit_select_date", "edit_finalize",
   "delete_reservation"}

\* C33: once the user has sent the cancel trigger, a press of a wizard
\* button issued before it creates, updates or deletes no reservation and
\* leaves the session without a wizard status.
C33_CancelRevokesButtons ==
  [][(/\ ev.type = "text"
      /\ ev.reply = "cancelled"
      /\ ev'.type = "postback"
      /\ ev'.user = ev.user
      /\ ev'.data.action \in WizardButtons) =>
        /\ reservations' = reservations
        /\ states'[ev.user].status = ""]_vars

\* the reservation carries a lottery rank
Ranked(d) == reservations[d].exists /\ reservations[d].lotteryRank # 0

\* C34: no two reservations of one slot key that carry a lottery rank carry
\* the same rank.
C34_RanksUniquePerSlot ==
  \A d1, d2 \in DOMAIN reservations :
    (/\ d1 # d2
     /\ Ranked(d1)
     /\ Ranked(d2)
     /\ reservations[d1].date = reservations[d2].date) =>
       reservations[d1].lotteryRank # reservations[d2].lotteryRank

\* C35: a webhook event of user u changes or removes only reservations whose
\* userId is u, and a reservation it creates belongs to u; the user presses
\* only buttons the server sent to them.
C35_OnlyOwnBookingsTouched ==
  [][ev'.type \in {"text", "postback"} =>
       \A d \in DOMAIN reservations :
         reservations'[d] # reservations[d] =>
           IF reservations[d].exists
             THEN reservations[d].userId = ev'.user
             ELSE reservations'[d].userId = ev'.user]_vars

\* the user has renamed, moved or deleted a reservation of their own while
\* a reservation of another user is in the store
C35_Witness ==
  /\ ev.reply \in {"band_name_updated", "datetime_updated", "deleted"}
  /\ \E d \in DOMAIN reservations :
       reservations[d].exists /\ reservations[d].userId # ev.user
  /\ \E d \in DOMAIN reservations :
       ~reservations[d].exists /\ d < nextDocId

\* the ids of the reservations in the store
BookingIds == {d \in DOMAIN reservations : reservations[d].exists}

\* C36: a webhook event changes the set of reservation ids only by an
\* accepted time button of a registration, which adds exactly one new id,
\* or by an accepted confirmation of a deletion, which removes exactly the
\* id of the button; the edits of band name and date/time leave the set as
\* it is, and an edit whose reservation is gone is answered with the error
\* reply and writes no reservation.
C36_BookingIdsFrame ==
  [][ev'.type \in {"text", "postback"} =>
       /\ BookingIds' # BookingIds =>
            \/ /\ ev'.type = "postback"
               /\ ev'.data.action = "finalize"
               /\ ev'.reply = "reservation_accepted"
            \/ /\ ev'.type = "postback"
               /\ ev'.data.action = "delete_reservation"
               /\ ev'.reply = "deleted"
       /\ ev'.reply = "reservation_accepted" =>
            \E d \in DOMAIN reservations \ BookingIds :
              BookingIds' = BookingIds \cup {d}
       /\ ev'.reply = "deleted" =>
            BookingIds' = BookingIds \ {ev'.data.docId}
       /\ ev'.reply \in {"band_name_updated", "datetime_updated"} =>
            BookingIds' = BookingIds
       /\ (/\ ev'.type = "postback"
           /\ ev'.data.action = "edit_finalize"
           /\ ev'.verdict = "valid"
           /\ ev'.data.docId \notin BookingIds) =>
             ev'.reply = "error" /\ reservations' = reservations
       /\ (/\ ev'.type = "text"
           /\ states[ev'.user].status = "EDITING_BAND_NAME"
           /\ states[ev'.user].editingDocId \notin BookingIds) =>
             /\ ev'.reply # "band_name_updated"
             /\ reservations' = reservations]_vars

\* the time button of a date/time edit was pressed after the reservation of
\* the edit had been deleted
C36_Witness ==
  /\ ev.type = "postback"
  /\ ev.data.action = "edit_finalize"
  /\ ev.verdict = "valid"
  /\ ev.reply = "error"
  /\ ev.data.docId \notin BookingIds
  /\ ev.data.docId < nextDocId

\* the values of the status field
WizardStatuses ==
  {"WAITING_BAND_NAME", "EDITING_BAND_NAME", "EDITING_DATETIME",
   "EDITING_DATETIME_TIME", "WAITING_DELETE_CONFIRM",
   "VIEWING_ALL_DATE_SELECT"}

\* C37: in every session, status is present exactly when createdAt is, a
\* present status is one of the six wizard values, the three edit statuses
\* come with editingDocId and WAITING_DELETE_CONFIRM with deletingDocId.
C37_SessionShape ==
  \A u \in Users :
    LET s == states[u]
    IN /\ (s.status # "") <=> (s.createdAt # 0)
       /\ s.status # "" => s.status \in WizardStatuses
       /\ s.status \in {"EDITING_BAND_NAME", "EDITING_DATETIME",
                         "EDITING_DATETIME_TIME"} => s.editingDocId # 0
       /\ s.status = "WAITING_DELETE_CONFIRM" => s.deletingDocId # 0

\* a delete dialogue of an edit under way has been answered: the session
\* has lost status and createdAt together
C37_Witness ==
  /\ ev.type = "postback"
  /\ ev.reply \in {"deleted", "delete_cancelled"}
  /\ states[ev.user].exists
  /\ states[ev.user].status = ""
  /\ states[ev.user].createdAt = 0
  /\ states[ev.user].lastButtonPressTs # 0

\* C38: at any instant and for any weekday allow-list, every date of the
\* list for registration and date/time edits (without same-day inclusion)
\* is in the view-all list computed at that instant.
C38_RegistrationDatesViewable ==
  (ev.type = "dates" /\ ev.includeToday) =>
    Range(getAvailableDateListAt(ev.at, ev.availableDays, FALSE))
      \subseteq Range(ev.result)

\* C39: when the lottery job runs for date D right after clear-lottery for
\* D, the result record of D exists again and every reservation of date D
\* that had been drawn (status determined or confirmed) carries a rank and
\* a rank total again.
C39_ClearThenRerunRestores ==
  [][(/\ ev.type = "clear_lottery"
      /\ ev'.type \in {"lottery", "lottery_none"}
      /\ ev'.targetDate = ev.targetDate) =>
        /\ lottery_results'[ev.targetDate].exists
        /\ \A d \in DOMAIN reservations :
             (/\ reservations[d].exists
              /\ reservations[d].date[1] = ev.targetDate
              /\ reservations[d].status \in {"determined", "confirmed"}) =>
                /\ reservations'[d].lotteryRank # 0
                /\ reservations'[d].lotteryTotal # 0]_vars

\* the press of button b by user u is rejected by the freshness guard or by
\* the guard of the "show more" control
PressRejected(u, b) ==
  \/ isCarouselButtonValid(u, b.ts) # "valid"
  \/ /\ b.action = "view_my_more"
     /\ ~isViewMyMoreValid(states[u], b.page, b.ts)

\* the timestamps a session document holds
SessionStamps(s) ==
  {s.createdAt, s.quickReplyStartTime, s.lastButtonPressTs,
   s.lastViewMyCarouselTs} \ {0}

\* C40: the cleanup job deletes a session only if every timestamp it holds
\* is at least 5 minutes old, and every press of a stamped button that the
\* freshness guard or the paging guard rejects with the session present is
\* rejected with the session deleted.
C40_CleanupKeepsRejections ==
  [][ev'.type = "cleanup" =>
       \A u \in Users :
         (states[u].exists /\ ~states'[u].exists) =>
           /\ \A ts \in SessionStamps(states[u]) :
                now - ts >= SESSION_TIMEOUT_MINUTES * MinuteMs
           /\ \A b \in issued[u] :
                (b.ts # 0 /\ PressRejected(u, b)) => PressRejected(u, b)']_vars

\* the cleanup job has deleted the session of a user who holds a button
\* that the watermark had outdated and a "show more" control of a page
\* already shown
C40_Witness ==
  /\ ev.type = "cleanup"
  /\ \E u \in ev.deletedStates :
       /\ ~states[u].exists
       /\ \E b \in issued[u] : b.action = "confirm_delete" /\ b.ts # 0
       /\ \E b \in issued[u] : b.action = "view_my_more" /\ b.page = 1
====
